---- MODULE Spec2Model ----
(***************************************************************************)
(* Model of the relational graph loader of aced_submission                *)
(* (src/aced_submission/meta_graph_load.py): ensure_project,              *)
(* load_vertices, load_edges and meta_upload, run by one synchronous      *)
(* process against a PostgreSQL store.                                    *)
(*                                                                         *)
(* Python strings are sequences of one-character strings, so that         *)
(* str.endswith, str.lower, str.startswith, inflection.camelize and       *)
(* f-string concatenation are computed and not assumed.                   *)
(***************************************************************************)
EXTENDS Integers, Sequences, FiniteSets, TLC

(***************************************************************************)
(* Bounds of the model.                                                    *)
(***************************************************************************)
\* number of meta_upload invocations made by the process
MaxRuns == 2
\* number of direct ensure_project invocations made by the process
MaxEnsureCalls == 2

\* number of calls of empty_project and of graph rm made by the process
MaxRemovals == 1

\* lines per batch of load_vertices (1000 in the code) and of load_edges (100
\* in the code), scaled to the sizes of the files of the model
VertexBatchLines == 2
EdgeBatchLines == 2

\* number of statements the database fails in one behaviour
MaxFaults == 1

\* number of connections that run ensure_project at the same time
MaxConnections == 2

VARIABLES
    inv,                          \* arguments and environment of meta_upload
    node_program,                 \* table node_program, heap order
    node_project,                 \* table node_project, heap order
    edge_projectmemberofprogram,  \* table edge_projectmemberofprogram
    node_tables,                  \* vertex table name -> committed rows
    edge_tables,                  \* edge table name -> committed rows
    LOGGED_ALREADY,               \* module global, line 24
    pc,                           \* position of the process in meta_upload
    error,                        \* what the last invocation raised, or None
    dependency_order,             \* meta_upload local, lines 250-251
    project_node_id,              \* meta_upload local, line 271
    project_id,                   \* meta_upload local, line 273
    files,                        \* meta_upload local, line 279
    mappings,                     \* meta_upload local, line 285
    entity_index,                 \* position of the loaders in dependency_order
    data_table_name,              \* load_vertices local, line 80
    batches,                      \* chunks of the open file not yet processed
    buffers,                      \* load_edges local, line 152, not yet merged
    log,                          \* lines emitted by the current invocation
    clock,                        \* datetime.now(), one tick per batch
    runs,                         \* meta_upload invocations started
    ensure_calls,                 \* direct ensure_project invocations
    ensure_count,                 \* all ensure_project invocations
    last_ensure,                  \* the last ensure_project call and its outcome
    resolved,                     \* (program, project) -> outcome of its first call
    db_work,                      \* a statement was executed in this invocation
    at_start,                     \* the store when the current invocation began
    run_results,                  \* the store at the end of each invocation
    faults,                       \* statements the database failed so far
    conn,                         \* concurrent ensure_project calls, one per connection
    staged,                       \* a vertex batch on its way through copy_from
    upload,                       \* upload_document_reference of uploader.py
    variant,                      \* meta_uploader.py run over the same source directory
    ensure,                       \* the ensure_project call that is running
    removal,                      \* empty_project and graph rm: the call that is running
    previous_run                  \* how the invocation before the current one ended

vars == <<inv, node_program, node_project, edge_projectmemberofprogram,
          node_tables, edge_tables, LOGGED_ALREADY, pc, error,
          dependency_order, project_node_id, project_id, files, mappings,
          entity_index, data_table_name, batches, buffers, log, clock, runs,
          ensure_calls, ensure_count, last_ensure, resolved, db_work,
          at_start, run_results, faults, conn, staged, upload,
          variant, ensure, removal, previous_run>>

(***************************************************************************)
(* Python string primitives.                                               *)
(***************************************************************************)
LowerChars == <<"a","b","c","d","e","f","g","h","i","j","k","l","m",
                "n","o","p","q","r","s","t","u","v","w","x","y","z">>
UpperChars == <<"A","B","C","D","E","F","G","H","I","J","K","L","M",
                "N","O","P","Q","R","S","T","U","V","W","X","Y","Z">>

\* str.upper() of one character
UpperChar(c) ==
    IF \E i \in 1..Len(LowerChars) : LowerChars[i] = c
    THEN UpperChars[CHOOSE i \in 1..Len(LowerChars) : LowerChars[i] = c]
    ELSE c

\* str.lower() of one character
LowerChar(c) ==
    IF \E i \in 1..Len(UpperChars) : UpperChars[i] = c
    THEN LowerChars[CHOOSE i \in 1..Len(UpperChars) : UpperChars[i] = c]
    ELSE c

\* str.lower()
Lower(s) == [i \in 1..Len(s) |-> LowerChar(s[i])]

\* str.endswith(suffix)
EndsWith(s, suffix) ==
    /\ Len(suffix) <= Len(s)
    /\ SubSeq(s, Len(s) - Len(suffix) + 1, Len(s)) = suffix

\* str.startswith(prefix)
StartsWith(s, prefix) ==
    /\ Len(prefix) <= Len(s)
    /\ SubSeq(s, 1, Len(prefix)) = prefix

\* inflection.camelize(s): re.sub(r"(?:^|_)(.)", upper of group 1, s),
\* scanning from position i
RECURSIVE CamelizeFrom(_, _)
CamelizeFrom(s, i) ==
    IF i > Len(s) THEN <<>>
    ELSE IF i = 1 THEN <<UpperChar(s[1])>> \o CamelizeFrom(s, 2)
    ELSE IF s[i] = "_" /\ i + 1 <= Len(s)
         THEN <<UpperChar(s[i + 1])>> \o CamelizeFrom(s, i + 2)
    ELSE <<s[i]>> \o CamelizeFrom(s, i + 1)

camelize(s) == CamelizeFrom(s, 1)

\* the elements of a sequence
Range(seq) == {seq[i] : i \in 1..Len(seq)}

(***************************************************************************)
(* String literals used by the code and by the inputs.                     *)
(***************************************************************************)
sNdjson == <<".","n","d","j","s","o","n">>
sUnderscore == <<"_">>
sDash == <<"-">>
sProgram == <<"P","r","o","g","r","a","m">>
sProject == <<"P","r","o","j","e","c","t">>
sproject == <<"p","r","o","j","e","c","t">>
sprogram == <<"p","r","o","g","r","a","m">>
sopen == <<"o","p","e","n">>
sResearchStudy == <<"R","e","s","e","a","r","c","h","S","t","u","d","y">>
sresearch_study == <<"r","e","s","e","a","r","c","h","_","s","t","u","d","y">>
sPatient == <<"P","a","t","i","e","n","t">>
sObservation == <<"O","b","s","e","r","v","a","t","i","o","n">>
sSpecimen == <<"S","p","e","c","i","m","e","n">>
sSubstance == <<"S","u","b","s","t","a","n","c","e">>
sName == <<"n","a","m","e">>
sprog == <<"p","r","o","g">>
sproj == <<"p","r","o","j">>
sprog2 == <<"p","r","o","g","2">>
sp1 == <<"p","1">>
sp2 == <<"p","2">>
so1 == <<"o","1">>
so2 == <<"o","2">>
so3 == <<"o","3">>
srs1 == <<"r","s","1">>
ss1 == <<"s","1">>
sx1 == <<"x","1">>
sAlice == <<"A","l","i","c","e">>
sBob == <<"B","o","b">>
s5 == <<"5">>
s7 == <<"7">>
node_patient == <<"n","o","d","e","_","p","a","t","i","e","n","t">>
node_observation == <<"n","o","d","e","_","o","b","s","e","r","v","a","t","i","o","n">>
node_specimen == <<"n","o","d","e","_","s","p","e","c","i","m","e","n">>
node_researchstudy == <<"n","o","d","e","_","r","e","s","e","a","r","c","h","s","t","u","d","y">>
node_project_table == <<"n","o","d","e","_","p","r","o","j","e","c","t">>
edge_observation_patient == <<"e","d","g","e","_","o","b","s","_","p","a","t">>
edge_observation_specimen == <<"e","d","g","e","_","o","b","s","_","s","p","e","c">>
edge_patient_researchstudy == <<"e","d","g","e","_","p","a","t","_","r","s">>
edge_researchstudy_project == <<"e","d","g","e","_","r","s","_","p","r","o","j">>
edge_specimen_patient == <<"e","d","g","e","_","s","p","e","c","_","p","a","t">>

\* Python None
None == <<"None">>

(***************************************************************************)
(* The sheepdog store: node_program, node_project and                      *)
(* edge_projectmemberofprogram, as ensure_project reads and writes them.   *)
(* node_program and node_project are sequences in heap order, the order in *)
(* which a select without ORDER BY returns the rows of a small table.      *)
(***************************************************************************)
PROGRAM_SEED == "85b08c6a-56a6-4474-9c30-b65abfd214a8"
PROJECT_SEED == "249b4405-2c69-45d9-96bc-7410333d5d80"

\* str(uuid.uuid5(seed, name)): a value determined by, and distinct for
\* distinct, (seed, name)
uuid5(seed, name) == <<"uuid5", seed>> \o name

\* json.dumps({'name': program, 'type': 'program', "dbgap_accession_number": program})
ProgramProps(program_) ==
    [name |-> program_, type |-> sprogram, dbgap_accession_number |-> program_]

\* json.dumps({'code': project, 'type': 'project', "state": "open", "dbgap_accession_number": project})
ProjectProps(project_) ==
    [code |-> project_, type |-> sproject, state |-> sopen,
     dbgap_accession_number |-> project_]

\* INSERT INTO node_program/node_project (node_id, _props) ... ON CONFLICT DO NOTHING
InsertNodeIgnore(table, row) ==
    IF \E i \in 1..Len(table) : table[i].node_id = row.node_id
    THEN table
    ELSE Append(table, row)

\* the insert with the conflict taken on src_id alone
InsertEdgeIgnore_conflict_on_src(table, row) ==
    IF \E e \in table : e.src_id = row.src_id THEN table ELSE table \cup {row}

\* INSERT INTO edge_projectmemberofprogram(src_id, dst_id) ... ON CONFLICT DO NOTHING
InsertEdgeIgnore(table, row) ==
    IF \E e \in table : e.src_id = row.src_id /\ e.dst_id = row.dst_id
    THEN table
    ELSE table \cup {row}

\* [p for p in programs if p['_props']['name'] == program]
ProgramsNamed(programs, program_) ==
    SelectSeq(programs, LAMBDA p : p.props.name = program_)

\* the rows of: select node_id, _props->>'code' from node_project where node_id in
\* (select src_id from edge_projectmemberofprogram where dst_id =
\*  (select node_id from node_program where _props->>'name' = %s)) and _props->>'code' = %s
ProjectOfProgram(programs, projects, membership, program_, project_) ==
    LET owner == SelectSeq(programs, LAMBDA p : p.props.name = program_)
    IN IF owner = <<>> THEN <<>>
       ELSE SelectSeq(projects, LAMBDA q :
                /\ q.props.code = project_
                /\ \E e \in membership :
                      e.src_id = q.node_id /\ e.dst_id = Head(owner).node_id)

\* the scalar subquery of that select fails when it returns more than one row
ProjectQueryFails(programs, program_) ==
    Len(SelectSeq(programs, LAMBDA p : p.props.name = program_)) > 1

\* ensure_project, lines 309-326: the program row and its node id
EnsureProgram(programs, program_) ==
    LET found == ProgramsNamed(programs, program_)
    IN IF found = <<>>
       THEN [program_node_id |-> uuid5(PROGRAM_SEED, program_),
             node_program |-> InsertNodeIgnore(programs,
                 [node_id |-> uuid5(PROGRAM_SEED, program_),
                  props |-> ProgramProps(program_)])]
       ELSE [program_node_id |-> Head(found).node_id, node_program |-> programs]

\* the project id derived from the seed of the programs
NewProjectNodeId_program_seed(project_) == uuid5(PROGRAM_SEED, project_)

\* project_node_id = str(uuid.uuid5(PROJECT_SEED, project)), line 342
NewProjectNodeId(project_) == uuid5(PROJECT_SEED, project_)

\* ensure_project, lines 301-358, on a store st = [node_program, node_project,
\* edge_projectmemberofprogram]; the result holds the store after the call, the
\* local project_node_id, the value the function returns, and whether a
\* statement raised
ensure_project_on(st, program_, project_) ==
    LET prog == EnsureProgram(st.node_program, program_)
        hits == ProjectOfProgram(prog.node_program, st.node_project,
                                 st.edge_projectmemberofprogram, program_, project_)
    IN IF ProjectQueryFails(prog.node_program, program_)
       THEN [node_program |-> prog.node_program,
             node_project |-> st.node_project,
             edge_projectmemberofprogram |-> st.edge_projectmemberofprogram,
             project_node_id |-> None, returned |-> None, raised |-> TRUE]
       ELSE IF hits # <<>>
       THEN [node_program |-> prog.node_program,
             node_project |-> st.node_project,
             edge_projectmemberofprogram |-> st.edge_projectmemberofprogram,
             project_node_id |-> Head(hits).node_id,
             returned |-> None, raised |-> FALSE]
       ELSE [node_program |-> prog.node_program,
             node_project |-> InsertNodeIgnore(st.node_project,
                 [node_id |-> NewProjectNodeId(project_),
                  props |-> ProjectProps(project_)]),
             edge_projectmemberofprogram |->
                 InsertEdgeIgnore(st.edge_projectmemberofprogram,
                     [src_id |-> NewProjectNodeId(project_),
                      dst_id |-> prog.program_node_id]),
             project_node_id |-> NewProjectNodeId(project_),
             returned |-> None, raised |-> FALSE]
(***************************************************************************)
(* Helpers shared by load_vertices and load_edges.                         *)
(***************************************************************************)
\* tuples of exactly arr_size items: what is left at the end is dropped
RECURSIVE chunk_drop_short(_, _)
chunk_drop_short(arr_range, arr_size) ==
    IF Len(arr_range) < arr_size THEN <<>>
    ELSE <<SubSeq(arr_range, 1, arr_size)>>
         \o chunk_drop_short(SubSeq(arr_range, arr_size + 1, Len(arr_range)),
                             arr_size)

\* chunk(arr_range, arr_size): consecutive tuples of at most arr_size items,
\* ended by the first empty tuple
RECURSIVE chunk(_, _)
chunk(arr_range, arr_size) ==
    IF arr_range = <<>> THEN <<>>
    ELSE IF Len(arr_range) <= arr_size THEN <<arr_range>>
    ELSE <<SubSeq(arr_range, 1, arr_size)>>
         \o chunk(SubSeq(arr_range, arr_size + 1, Len(arr_range)), arr_size)

\* [fn for fn in files if str(fn).endswith(f"{entity_name}.ndjson")]
PathsFor(files_, entity_name) ==
    SelectSeq(files_, LAMBDA fn : EndsWith(fn.path, entity_name \o sNdjson))

\* set([m['dsttable'] for m in mapping if m['dstclass'].lower() == entity_name.lower()] +
\*     [m['srctable'] for m in mapping if m['srcclass'].lower() == entity_name.lower()])
DataTableNames(mapping, entity_name) ==
    {mapping[i].dsttable : i \in {j \in 1..Len(mapping) :
                                   Lower(mapping[j].dstclass) = Lower(entity_name)}}
    \cup
    {mapping[i].srctable : i \in {j \in 1..Len(mapping) :
                                   Lower(mapping[j].srcclass) = Lower(entity_name)}}

(***************************************************************************)
(* load_vertices: staging and merge of one batch.                          *)
(***************************************************************************)
\* the assignment made only when the object has no project_id yet
InjectProjectId_keep_existing(object, project_id_) ==
    [k \in DOMAIN object \cup {"project_id"} |->
        IF k \in DOMAIN object THEN object[k] ELSE project_id_]

\* d_['object']['project_id'] = project_id
InjectProjectId(object, project_id_) ==
    [k \in DOMAIN object \cup {"project_id"} |->
        IF k = "project_id" THEN project_id_ ELSE object[k]]

\* the staged line of one record: node_id, _props, acl, _sysan, created
StageVertexRow(d_, project_id_, now) ==
    [node_id |-> d_.id, props |-> InjectProjectId(d_.object, project_id_),
     acl |-> <<>>, sysan |-> <<>>, created |-> now]

\* the rows copied into tmp_<table> for one chunk of lines
StageVertexBatch(lines, project_id_, now) ==
    [i \in 1..Len(lines) |-> StageVertexRow(lines[i], project_id_, now)]

\* INSERT ... SELECT ... ON CONFLICT (node_id) DO UPDATE raises when the
\* selected rows propose the same node_id twice
VertexMergeRaises(rows) ==
    \E i, j \in 1..Len(rows) : i # j /\ rows[i].node_id = rows[j].node_id

\* the insert without its ON CONFLICT clause, on a table without primary key
MergeVertices_no_conflict(table, rows) == table \cup Range(rows)

\* the insert with ON CONFLICT (node_id) DO NOTHING: a row that is there stays
MergeVertices_do_nothing(table, rows) ==
    table \cup {r \in Range(rows) : \A x \in table : x.node_id # r.node_id}

\* INSERT INTO <table> ... ON CONFLICT (node_id) DO UPDATE SET _props, acl, _sysan, created
MergeVertices(table, rows) ==
    {r \in table : \A i \in 1..Len(rows) : rows[i].node_id # r.node_id}
    \cup Range(rows)

(***************************************************************************)
(* load_edges: staging of one batch of lines and merge of one buffer.      *)
(***************************************************************************)
\* dict((v['dst_id'], v) for v in relations).values(): one entry per dst_id, at
\* the position of its first occurrence, holding its last occurrence
RECURSIVE DedupRelationsInto(_, _)
DedupRelationsInto(kept, relations) ==
    IF relations = <<>> THEN kept
    ELSE LET v == Head(relations)
             at == {i \in 1..Len(kept) : kept[i].dst_id = v.dst_id}
         IN DedupRelationsInto(
                IF at = {} THEN Append(kept, v)
                ELSE [kept EXCEPT ![CHOOSE i \in at : TRUE] = v],
                Tail(relations))

\* first occurrence wins: one entry per dst_id, holding its first occurrence
RECURSIVE DedupRelationsFirstInto(_, _)
DedupRelationsFirstInto(kept, relations) ==
    IF relations = <<>> THEN kept
    ELSE DedupRelationsFirstInto(
             IF \E i \in 1..Len(kept) : kept[i].dst_id = Head(relations).dst_id
             THEN kept ELSE Append(kept, Head(relations)),
             Tail(relations))

DedupRelations_first(relations) == DedupRelationsFirstInto(<<>>, relations)

DedupRelations(relations) == DedupRelationsInto(<<>>, relations)

\* the relations of a record without the ResearchStudy link
RelationsOf_no_project_link(d_, project_node_id_) == DedupRelations(d_.relations)

\* the relations of a record after deduplication and the ResearchStudy link
RelationsOf(d_, project_node_id_) ==
    IF d_.name \in {sResearchStudy, sresearch_study}
    THEN Append(DedupRelations(d_.relations),
                [dst_id |-> project_node_id_, dst_name |-> sProject,
                 label |-> sproject])
    ELSE DedupRelations(d_.relations)

\* the lookup with the destination type as the relation spells it
EdgeTableMappings_as_spelled(mapping, entity_name, dst_name) ==
    SelectSeq(mapping, LAMBDA m :
        m.srcclass = entity_name /\ m.dstclass = dst_name)

\* [m for m in mapping if m['srcclass'] == entity_name and m['dstclass'] == dst_name_camel]
EdgeTableMappings(mapping, entity_name, dst_name) ==
    SelectSeq(mapping, LAMBDA m :
        m.srcclass = entity_name /\ m.dstclass = camelize(dst_name))

\* f"No relations for {d_['name']}"
NoRelationsMsg(name) == <<"No relations for ">> \o name

\* f"No mapping for src {entity_name} dst {relation['dst_name']}"
NoMappingMsg(entity_name, dst_name) ==
    <<"No mapping for src ">> \o entity_name \o <<" dst ">> \o dst_name

\* if msg not in LOGGED_ALREADY: emit; LOGGED_ALREADY.append(msg)
LogOnce(acc, level, msg) ==
    IF \E i \in 1..Len(acc.logged) : acc.logged[i] = msg
    THEN acc
    ELSE [acc EXCEPT !.logged = Append(@, msg),
                     !.log = Append(@, [level |-> level, msg |-> msg])]

\* buffers[table_name].write(row), buffers being in order of first write
WriteBuffer(bufs, table_name, row) ==
    LET at == {i \in 1..Len(bufs) : bufs[i].table_name = table_name}
    IN IF at = {}
       THEN Append(bufs, [table_name |-> table_name, rows |-> <<row>>])
       ELSE [bufs EXCEPT ![CHOOSE i \in at : TRUE].rows = Append(@, row)]

\* the relation staged with its two ids in each other's column
StageRelation_swapped(acc, entity_name, d_, relation, mapping, order, now) ==
    LET edge_table_mapping == EdgeTableMappings(mapping, entity_name, relation.dst_name)
        msg == NoMappingMsg(entity_name, relation.dst_name)
    IN IF edge_table_mapping = <<>> /\ relation.dst_name \in Range(order)
       THEN LogOnce(acc, "warning", msg)
       ELSE IF edge_table_mapping = <<>>
       THEN LogOnce(acc, "print", msg)
       ELSE [acc EXCEPT !.buffers =
                WriteBuffer(@, Head(edge_table_mapping).tablename,
                    [src_id |-> relation.dst_id, dst_id |-> d_.id,
                     acl |-> <<>>, sysan |-> <<>>, props |-> <<>>,
                     created |-> now])]

\* lines 178-207: one relation of one record
StageRelation(acc, entity_name, d_, relation, mapping, order, now) ==
    LET edge_table_mapping == EdgeTableMappings(mapping, entity_name, relation.dst_name)
        msg == NoMappingMsg(entity_name, relation.dst_name)
    IN IF edge_table_mapping = <<>> /\ relation.dst_name \in Range(order)
       THEN LogOnce(acc, "warning", msg)
       ELSE IF edge_table_mapping = <<>>
       THEN LogOnce(acc, "print", msg)
       ELSE [acc EXCEPT !.buffers =
                WriteBuffer(@, Head(edge_table_mapping).tablename,
                    [src_id |-> d_.id, dst_id |-> relation.dst_id,
                     acl |-> <<>>, sysan |-> <<>>, props |-> <<>>,
                     created |-> now])]

RECURSIVE StageRelations(_, _, _, _, _, _, _)
StageRelations(acc, entity_name, d_, relations, mapping, order, now) ==
    IF relations = <<>> THEN acc
    ELSE StageRelations(
             StageRelation(acc, entity_name, d_, Head(relations), mapping, order, now),
             entity_name, d_, Tail(relations), mapping, order, now)

\* lines 154-207: one line of the batch
StageEdgeLine(acc, entity_name, d_, mapping, order, project_node_id_, now) ==
    LET relations == RelationsOf(d_, project_node_id_)
    IN IF relations = <<>>
       THEN LogOnce(acc, "print", NoRelationsMsg(d_.name))
       ELSE StageRelations(acc, entity_name, d_, relations, mapping, order, now)

\* lines 152-207: the buffers, LOGGED_ALREADY and log lines after one batch
RECURSIVE StageEdgeBatch(_, _, _, _, _, _, _)
StageEdgeBatch(acc, entity_name, lines, mapping, order, project_node_id_, now) ==
    IF lines = <<>> THEN acc
    ELSE StageEdgeBatch(
             StageEdgeLine(acc, entity_name, Head(lines), mapping, order,
                           project_node_id_, now),
             entity_name, Tail(lines), mapping, order, project_node_id_, now)

\* INSERT ... SELECT ... ON CONFLICT (src_id, dst_id) DO UPDATE raises when the
\* selected rows propose the same (src_id, dst_id) twice
EdgeMergeRaises(rows) ==
    \E i, j \in 1..Len(rows) :
        i # j /\ rows[i].src_id = rows[j].src_id /\ rows[i].dst_id = rows[j].dst_id

\* the insert without its ON CONFLICT clause, on a table without primary key
MergeEdges_no_conflict(table, rows) == table \cup Range(rows)

\* INSERT INTO "<table>" ... ON CONFLICT (src_id, dst_id) DO UPDATE SET acl, _sysan, _props, created
MergeEdges(table, rows) ==
    {r \in table : \A i \in 1..Len(rows) :
        ~(rows[i].src_id = r.src_id /\ rows[i].dst_id = r.dst_id)}
    \cup Range(rows)
(***************************************************************************)
(* Inputs: the ndjson files, the dependency order of the config file, the  *)
(* mapping the dictionary yields, and the stores a load can start from.    *)
(***************************************************************************)
ssubject == <<"s","u","b","j","e","c","t">>
sperformer == <<"p","e","r","f","o","r","m","e","r">>
sspecimen == <<"s","p","e","c","i","m","e","n">>
sstudy == <<"s","t","u","d","y">>
sEncounter == <<"E","n","c","o","u","n","t","e","r">>
se1 == <<"e","1">>
srs2 == <<"r","s","2">>
sp3 == <<"p","3">>
s_definitions == <<"_","d","e","f","i","n","i","t","i","o","n","s">>
sdictionary == <<"d","i","c","t">>
sext_program == <<"e","x","t","-","p","r","o","g","r","a","m">>
sext_project == <<"e","x","t","-","p","r","o","j","e","c","t">>
sOutPatient == <<"O","u","t","P","a","t","i","e","n","t">>
node_outpatient == <<"n","o","d","e","_","o","u","t","p","a","t","i","e","n","t">>
edge_outpatient_patient == <<"e","d","g","e","_","o","u","t","_","p","a","t">>

ProgramNames == {sprog, sprog2}
ProjectNames == {sproj}

Rec(id, object, name, relations) ==
    [id |-> id, object |-> object, name |-> name, relations |-> relations]

Rel(dst_id, dst_name, label) ==
    [dst_id |-> dst_id, dst_name |-> dst_name, label |-> label]

NdjsonFile(entity, lines) ==
    [path |-> <<"/","s","/">> \o entity \o sNdjson, lines |-> lines]

MapEntry(srcclass, dstclass, srctable, dsttable, tablename) ==
    [srcclass |-> srcclass, dstclass |-> dstclass, srctable |-> srctable,
     dsttable |-> dsttable, tablename |-> tablename]

\* the end-to-end scenario: one Patient, one Observation of that Patient
EndToEnd ==
    [source_is_dir |-> TRUE, config_is_file |-> TRUE,
     dictionary_path |-> sdictionary, dictionary_ok |-> TRUE,
     config_order |-> <<sPatient, sObservation>>,
     glob |-> << NdjsonFile(sPatient,
                    <<Rec(sp1, [name |-> sAlice], sPatient, <<>>)>>),
                 NdjsonFile(sObservation,
                    <<Rec(so1, [value |-> s5], sObservation,
                          <<Rel(sp1, sPatient, ssubject)>>)>>) >>,
     dictionary |-> << MapEntry(sObservation, sPatient, node_observation,
                                node_patient, edge_observation_patient) >>,
     program |-> sprog, project |-> sproj]

\* a study with patients, observations with repeated, lower-case and unmapped
\* relations, a type without file (Specimen) and a type without vertex
\* table (Substance)
Study ==
    [source_is_dir |-> TRUE, config_is_file |-> TRUE,
     dictionary_path |-> sdictionary, dictionary_ok |-> TRUE,
     config_order |-> <<s_definitions, sProgram, sProject, sResearchStudy,
                        sPatient, sSpecimen, sSubstance, sObservation>>,
     glob |-> << NdjsonFile(sObservation,
                    << Rec(so1, [value |-> s5], sObservation,
                           << Rel(sp1, sPatient, ssubject),
                              Rel(ss1, sspecimen, sspecimen),
                              Rel(sp1, sPatient, sperformer),
                              Rel(sx1, sSubstance, ssubject) >>),
                       Rec(so2, [value |-> s7], sObservation,
                           << Rel(sp2, sPatient, ssubject),
                              Rel(sx1, sSubstance, ssubject),
                              Rel(se1, sEncounter, ssubject),
                              Rel(sp2, sSpecimen, ssubject) >>),
                       Rec(so3, [value |-> s7], sObservation,
                           << Rel(sp3, sPatient, ssubject),
                              Rel(sp3, sEncounter, ssubject) >>) >>),
                 NdjsonFile(sPatient,
                    << Rec(sp1, [name |-> sAlice, project_id |-> sBob], sPatient,
                           <<Rel(srs1, sResearchStudy, sstudy)>>),
                       Rec(sp2, [name |-> sBob], sPatient, <<>>),
                       Rec(sp3, [name |-> sBob], sPatient,
                           <<Rel(srs2, sresearch_study, sstudy)>>) >>),
                 NdjsonFile(sResearchStudy,
                    << Rec(srs1, [name |-> sAlice], sResearchStudy, <<>>),
                       Rec(srs2, [name |-> sBob], sresearch_study,
                           <<Rel(sp1, sPatient, ssubject)>>) >>),
                 NdjsonFile(sSubstance,
                    << Rec(sx1, [name |-> sBob], sSubstance, <<>>) >>) >>,
     dictionary |-> << MapEntry(sResearchStudy, sProject, node_researchstudy,
                                node_project_table, edge_researchstudy_project),
                       MapEntry(sPatient, sResearchStudy, node_patient,
                                node_researchstudy, edge_patient_researchstudy),
                       MapEntry(sObservation, sPatient, node_observation,
                                node_patient, edge_observation_patient),
                       MapEntry(sObservation, sSpecimen, node_observation,
                                node_specimen, edge_observation_specimen),
                       MapEntry(sSpecimen, sPatient, node_specimen,
                                node_patient, edge_specimen_patient) >>,
     program |-> sprog, project |-> sproj]

\* two types of which one name ends with the other: the glob lists
\* OutPatient.ndjson before Patient.ndjson
Suffixed ==
    [source_is_dir |-> TRUE, config_is_file |-> TRUE,
     dictionary_path |-> sdictionary, dictionary_ok |-> TRUE,
     config_order |-> <<sPatient, sOutPatient>>,
     glob |-> << NdjsonFile(sOutPatient,
                    <<Rec(sx1, [name |-> sBob], sOutPatient, <<>>)>>),
                 NdjsonFile(sPatient,
                    <<Rec(sp1, [name |-> sAlice], sPatient, <<>>)>>) >>,
     dictionary |-> << MapEntry(sOutPatient, sPatient, node_outpatient,
                                node_patient, edge_outpatient_patient) >>,
     program |-> sprog, project |-> sproj]

\* the end-to-end scenario with a Patient file that holds the id p1 on two
\* lines
Repeated ==
    [EndToEnd EXCEPT !.glob =
        << NdjsonFile(sPatient,
              << Rec(sp1, [name |-> sAlice], sPatient, <<>>),
                 Rec(sp1, [name |-> sBob], sPatient, <<>>) >>),
           NdjsonFile(sObservation,
              <<Rec(so1, [value |-> s5], sObservation,
                    <<Rel(sp1, sPatient, ssubject)>>)>>) >>]

\* the invocations of the model: the two loads, the end-to-end load with
\* each precondition of meta_upload broken in turn, the end-to-end load
\* with a dictionary that cannot be fetched or parsed, the load of two
\* types of which one name ends with the other, and the load of a file
\* that repeats an id
Invocations ==
    { EndToEnd, Study, Suffixed, Repeated,
      [EndToEnd EXCEPT !.source_is_dir = FALSE],
      [EndToEnd EXCEPT !.config_is_file = FALSE],
      [EndToEnd EXCEPT !.dictionary_path = <<>>],
      [EndToEnd EXCEPT !.glob = <<>>],
      [EndToEnd EXCEPT !.dictionary_ok = FALSE],
      [Study EXCEPT !.program = sprog2] }

Store(programs, projects, membership) ==
    [node_program |-> programs, node_project |-> projects,
     edge_projectmemberofprogram |-> membership]

\* the stores a load starts from: empty; program and project already there;
\* a project of the same code owned by another program, under its uuid5 id or
\* under a foreign id; a project row without its membership edge
InitialStores ==
    { Store(<<>>, <<>>, {}),
      Store(<<[node_id |-> sext_program, props |-> ProgramProps(sprog)]>>,
            <<[node_id |-> sext_project, props |-> ProjectProps(sproj)]>>,
            {[src_id |-> sext_project, dst_id |-> sext_program]}),
      Store(<<[node_id |-> uuid5(PROGRAM_SEED, sprog2), props |-> ProgramProps(sprog2)]>>,
            <<[node_id |-> uuid5(PROJECT_SEED, sproj), props |-> ProjectProps(sproj)]>>,
            {[src_id |-> uuid5(PROJECT_SEED, sproj),
              dst_id |-> uuid5(PROGRAM_SEED, sprog2)]}),
      Store(<<[node_id |-> uuid5(PROGRAM_SEED, sprog2), props |-> ProgramProps(sprog2)]>>,
            <<[node_id |-> sext_project, props |-> ProjectProps(sproj)]>>,
            {[src_id |-> sext_project, dst_id |-> uuid5(PROGRAM_SEED, sprog2)]}),
      Store(<<[node_id |-> uuid5(PROGRAM_SEED, sprog), props |-> ProgramProps(sprog)]>>,
            <<[node_id |-> uuid5(PROJECT_SEED, sproj), props |-> ProjectProps(sproj)]>>,
            {}) }

\* the vertex and edge tables of the schema the dictionary describes
NodeTableNames(mapping) ==
    ({mapping[i].srctable : i \in 1..Len(mapping)}
     \cup {mapping[i].dsttable : i \in 1..Len(mapping)}) \ {node_project_table}

EdgeTableNames(mapping) == {mapping[i].tablename : i \in 1..Len(mapping)}

\* the five tables of the store
CurrentStore ==
    [node_program |-> node_program, node_project |-> node_project,
     edge_projectmemberofprogram |-> edge_projectmemberofprogram,
     node_tables |-> node_tables, edge_tables |-> edge_tables,
     clock |-> clock]

\* the three tables of ensure_project as they are
BootstrapStore == Store(node_program, node_project, edge_projectmemberofprogram)

\* no call of ensure_project yet
NoEnsure ==
    [program |-> None, project |-> None, project_node_id |-> None,
     returned |-> None, raised |-> FALSE, again |-> None,
     before |-> Store(<<>>, <<>>, {}), after |-> Store(<<>>, <<>>, {})]

\* no invocation of meta_upload before the current one
NoRun == [error |-> "none", faults |-> 0]

\* no call of ensure_project is running
NoCall ==
    [caller |-> "none", return_pc |-> "idle", program |-> None,
     project |-> None, program_node_id |-> None,
     before |-> Store(<<>>, <<>>, {})]

\* no call of empty_project or graph rm is running, and none was made
NoRemoval ==
    [count |-> 0, raised |-> FALSE, project_id |-> None,
     dependency_order |-> <<>>, mappings |-> <<>>, entity_index |-> 1,
     log |-> <<>>]

\* no call of ensure_project for a pair of names yet
Unresolved == [project_node_id |-> None, how |-> "never"]

Init ==
    /\ inv \in Invocations
    /\ \E st \in InitialStores :
          /\ node_program = st.node_program
          /\ node_project = st.node_project
          /\ edge_projectmemberofprogram = st.edge_projectmemberofprogram
    /\ node_tables = [t \in NodeTableNames(inv.dictionary) |-> {}]
    /\ edge_tables = [t \in EdgeTableNames(inv.dictionary) |-> {}]
    /\ LOGGED_ALREADY = <<>>
    /\ pc = "idle"
    /\ error = "none"
    /\ dependency_order = <<>>
    /\ project_node_id = None
    /\ project_id = None
    /\ files = <<>>
    /\ mappings = <<>>
    /\ entity_index = 1
    /\ data_table_name = None
    /\ batches = <<>>
    /\ buffers = <<>>
    /\ log = <<>>
    /\ clock = 0
    /\ runs = 0
    /\ ensure_calls = 0
    /\ ensure_count = 0
    /\ last_ensure = NoEnsure
    /\ resolved = [pq \in ProgramNames \X ProjectNames |-> Unresolved]
    /\ db_work = FALSE
    /\ run_results = <<>>
    /\ faults = 0
    /\ staged = <<>>
    /\ upload = <<>>
    /\ variant = <<>>
    /\ ensure = NoCall
    /\ previous_run = NoRun
    /\ removal = NoRemoval
    /\ conn = <<>>
    /\ at_start = CurrentStore
(***************************************************************************)
(* ensure_project, lines 301-358.                                          *)
(***************************************************************************)
\* the invocation ends: by an exception (what # "none") or by returning
Finish(what) ==
    /\ pc' = IF what = "none" THEN "done" ELSE "failed"
    /\ error' = what

\* the store at the end of an invocation that changes no table in its last step
Record == run_results' = Append(run_results, CurrentStore)

\* lines 303-326 of a call ensure_project(program_, project_): connect,
\* select the programs, and insert and commit the program when no row has
\* the name; the select of the project is next
EnsureProjectBegin(caller, program_, project_) ==
    LET prog == EnsureProgram(node_program, program_)
    IN /\ node_program' = prog.node_program
       /\ ensure' = [caller |-> caller, return_pc |-> pc,
                     program |-> program_, project |-> project_,
                     program_node_id |-> prog.program_node_id,
                     before |-> Store(node_program, node_project,
                                      edge_projectmemberofprogram)]
       /\ pc' = "ensure_project_select"

\* a direct call of ensure_project between two loads: lines 303-326
EnsureProjectCall ==
    /\ pc \in {"idle", "done", "failed"}
    /\ ensure_calls < MaxEnsureCalls
    /\ \E program_ \in ProgramNames, project_ \in ProjectNames :
          EnsureProjectBegin("ensure_project", program_, project_)
    /\ ensure_calls' = ensure_calls + 1
    /\ UNCHANGED <<inv, previous_run, removal, staged, upload, variant, faults, conn,
                   node_project, edge_projectmemberofprogram, node_tables,
                   edge_tables, LOGGED_ALREADY, error, dependency_order,
                   project_node_id, project_id, files, mappings, entity_index,
                   data_table_name, batches, buffers, log, clock, runs,
                   ensure_count, last_ensure, resolved, db_work, at_start,
                   run_results>>

\* the call of ensure_project that is running ends, with the project node
\* id it resolved or by raising: meta_upload goes on at line 255 or ends
\* with the exception, a direct caller is where it was
EnsureProjectEnds(project_node_id_, raised_, after_) ==
    LET first == resolved[<<ensure.program, ensure.project>>]
    IN /\ ensure_count' = ensure_count + 1
       /\ last_ensure' = [program |-> ensure.program,
                          project |-> ensure.project,
                          project_node_id |-> project_node_id_,
                          returned |-> None, raised |-> raised_,
                          again |-> first.project_node_id,
                          before |-> ensure.before, after |-> after_]
       /\ resolved' = IF first = Unresolved
                      THEN [resolved EXCEPT ![<<ensure.program, ensure.project>>] =
                               [project_node_id |-> project_node_id_,
                                how |-> IF Len(node_project)
                                             > Len(ensure.before.node_project)
                                        THEN "created" ELSE "found"]]
                      ELSE resolved
       /\ ensure' = NoCall
       /\ IF ensure.caller = "meta_upload"
          THEN IF raised_
               THEN Finish("database error") /\ Record
               ELSE pc' = "check_project" /\ UNCHANGED <<error, run_results>>
          ELSE pc' = ensure.return_pc /\ UNCHANGED <<error, run_results>>

\* what no step of ensure_project changes
EnsureUnchanged ==
    UNCHANGED <<inv, previous_run, removal, staged, upload, variant, faults, conn,
                node_program, node_tables, edge_tables, LOGGED_ALREADY,
                dependency_order, project_node_id, project_id, files, mappings,
                entity_index, data_table_name, batches, buffers, log, clock,
                runs, ensure_calls, db_work, at_start>>

\* lines 328-348: the project is selected under the program; found, the
\* call ends with its id; not found, the project row is inserted and
\* committed and the membership edge is next
EnsureProjectSelect ==
    /\ pc = "ensure_project_select"
    /\ IF ProjectQueryFails(node_program, ensure.program)
       THEN /\ EnsureProjectEnds(None, TRUE, BootstrapStore)
            /\ UNCHANGED <<node_project, edge_projectmemberofprogram>>
       ELSE LET hits == ProjectOfProgram(node_program, node_project,
                                         edge_projectmemberofprogram,
                                         ensure.program, ensure.project)
            IN IF hits # <<>>
               THEN /\ EnsureProjectEnds(Head(hits).node_id, FALSE, BootstrapStore)
                    /\ UNCHANGED <<node_project, edge_projectmemberofprogram>>
               ELSE /\ node_project' = InsertNodeIgnore(node_project,
                           [node_id |-> NewProjectNodeId(ensure.project),
                            props |-> ProjectProps(ensure.project)])
                    /\ pc' = "ensure_project_edge"
                    /\ UNCHANGED <<edge_projectmemberofprogram, ensure,
                                   ensure_count, last_ensure, resolved, error,
                                   run_results>>
    /\ EnsureUnchanged

\* lines 349-358: the membership edge is inserted and committed, and the
\* call ends with the id of the new project
EnsureProjectEdge ==
    /\ pc = "ensure_project_edge"
    /\ LET edges == InsertEdgeIgnore(edge_projectmemberofprogram,
                        [src_id |-> NewProjectNodeId(ensure.project),
                         dst_id |-> ensure.program_node_id])
       IN /\ edge_projectmemberofprogram' = edges
          /\ EnsureProjectEnds(NewProjectNodeId(ensure.project), FALSE,
                               Store(node_program, node_project, edges))
    /\ UNCHANGED node_project
    /\ EnsureUnchanged

(***************************************************************************)
(* meta_upload, lines 238-293.                                             *)
(***************************************************************************)
\* the first of the two filters alone: Program and Project stay
FilterDependencyOrder_keep_roots(config_order) ==
    SelectSeq(config_order, LAMBDA c : ~StartsWith(c, sUnderscore))

\* [c for c in gen3_config['dependency_order'] if not c.startswith('_')], then
\* [c for c in dependency_order if c not in ['Program', 'Project']]
FilterDependencyOrder(config_order) ==
    SelectSeq(SelectSeq(config_order, LAMBDA c : ~StartsWith(c, sUnderscore)),
              LAMBDA c : c \notin {sProgram, sProject})

\* lines 241-251: the assertions on the arguments and the dependency order
MetaUploadValidate ==
    /\ pc \in {"idle", "done", "failed"}
    /\ runs < MaxRuns
    /\ runs' = runs + 1
    /\ log' = <<>>
    /\ db_work' = FALSE
    /\ at_start' = CurrentStore
    /\ previous_run' = IF runs = 0 THEN NoRun
                       ELSE [error |-> error, faults |-> faults]
    /\ IF ~inv.source_is_dir
       THEN Finish("source_path should be a directory") /\ Record
       ELSE IF ~inv.config_is_file
       THEN Finish("config_path should be a file") /\ Record
       ELSE IF inv.dictionary_path = <<>>
       THEN Finish("dictionary_path cannot be empty") /\ Record
       ELSE pc' = "ensure_project" /\ error' = "none" /\ UNCHANGED run_results
    /\ dependency_order' = FilterDependencyOrder(inv.config_order)
    /\ project_node_id' = None
    /\ project_id' = None
    /\ files' = <<>>
    /\ mappings' = <<>>
    /\ entity_index' = 1
    /\ data_table_name' = None
    /\ batches' = <<>>
    /\ buffers' = <<>>
    /\ UNCHANGED <<inv, ensure, removal, staged, upload, variant, faults, conn, node_program, node_project, edge_projectmemberofprogram,
                   node_tables, edge_tables, LOGGED_ALREADY, clock,
                   ensure_calls, ensure_count, last_ensure, resolved>>

\* line 253: ensure_project(program, project), lines 303-326 of the call
MetaUploadEnsureProject ==
    /\ pc = "ensure_project"
    /\ EnsureProjectBegin("meta_upload", inv.program, inv.project)
    /\ db_work' = TRUE
    /\ UNCHANGED <<inv, previous_run, removal, staged, upload, variant, faults, conn,
                   node_project, edge_projectmemberofprogram, node_tables,
                   edge_tables, LOGGED_ALREADY, error, dependency_order,
                   project_node_id, project_id, files, mappings, entity_index,
                   data_table_name, batches, buffers, log, clock, runs,
                   ensure_calls, ensure_count, last_ensure, resolved, at_start,
                   run_results>>

\* [p['node_id'] for p in projects if p['_props']['code'] == project_code]
ProjectsWithCode(projects, project_code) ==
    SelectSeq(projects, LAMBDA q : q.props.code = project_code)

\* the project id without its program: f"{project}"
ProjectIdOf_project_only(program_, project_) == project_

\* f"{program}-{project}"
ProjectIdOf(program_, project_) == program_ \o sDash \o project_

\* lines 256-274: connect, and look the program and the project up again
MetaUploadCheckProject ==
    /\ pc = "check_project"
    /\ IF ProgramsNamed(node_program, inv.program) = <<>>
       THEN /\ Finish("program not found in node_program table") /\ Record
            /\ UNCHANGED <<project_node_id, project_id>>
       ELSE IF ProjectsWithCode(node_project, inv.project) = <<>>
       THEN /\ Finish("project not found in node_project") /\ Record
            /\ UNCHANGED <<project_node_id, project_id>>
       ELSE /\ project_node_id' =
                   Head(ProjectsWithCode(node_project, inv.project)).node_id
            /\ project_id' = ProjectIdOf(inv.program, inv.project)
            /\ pc' = "glob"
            /\ UNCHANGED <<error, run_results>>
    /\ UNCHANGED <<inv, previous_run, ensure, removal, staged, upload, variant, faults, conn, node_program, node_project, edge_projectmemberofprogram,
                   node_tables, edge_tables, LOGGED_ALREADY, dependency_order,
                   files, mappings, entity_index, data_table_name, batches,
                   buffers, log, clock, runs, ensure_calls, ensure_count,
                   last_ensure, resolved, db_work, at_start>>

\* lines 277-280: the files under source_path that match **/*.ndjson
MetaUploadGlob ==
    /\ pc = "glob"
    /\ files' = inv.glob
    /\ IF Len(inv.glob) > 0
       THEN pc' = "mappings" /\ UNCHANGED <<error, run_results>>
       ELSE Finish("No files found") /\ Record
    /\ UNCHANGED <<inv, previous_run, ensure, removal, staged, upload, variant, faults, conn, node_program, node_project, edge_projectmemberofprogram,
                   node_tables, edge_tables, LOGGED_ALREADY, dependency_order,
                   project_node_id, project_id, mappings, entity_index,
                   data_table_name, batches, buffers, log, clock, runs,
                   ensure_calls, ensure_count, last_ensure, resolved, db_work,
                   at_start>>

\* meta_upload calling load_edges without having called load_vertices
MetaUploadMappings_edges_first ==
    /\ pc = "mappings"
    /\ mappings' = inv.dictionary
    /\ pc' = "load_edges"
    /\ entity_index' = 1
    /\ UNCHANGED <<inv, previous_run, ensure, removal, staged, upload, variant, faults, conn, node_program, node_project, edge_projectmemberofprogram,
                   node_tables, edge_tables, LOGGED_ALREADY, error,
                   dependency_order, project_node_id, project_id, files,
                   data_table_name, batches, buffers, log, clock, runs,
                   ensure_calls, ensure_count, last_ensure, resolved, db_work,
                   at_start, run_results>>

\* lines 43-63 as consumed at line 285: the mapping entries of the
\* dictionary, or the exception DataDictionary, dictionary.init or the import
\* of gdcdatamodel raised, which nothing in the module catches or wraps
TableMappings(inv_) ==
    IF inv_.dictionary_ok
    THEN [raised |-> "none", mapping |-> inv_.dictionary]
    ELSE [raised |-> "exception of dictionaryutils", mapping |-> <<>>]

\* lines 283-289: the table mappings of the dictionary; load_vertices is next
MetaUploadMappings ==
    /\ pc = "mappings"
    /\ LET m == TableMappings(inv)
       IN IF m.raised = "none"
          THEN /\ mappings' = m.mapping
               /\ pc' = "load_vertices"
               /\ UNCHANGED <<error, run_results>>
          ELSE /\ Finish(m.raised) /\ Record
               /\ UNCHANGED mappings
    /\ entity_index' = 1
    /\ UNCHANGED <<inv, previous_run, ensure, removal, staged, upload, variant, faults, conn, node_program, node_project, edge_projectmemberofprogram,
                   node_tables, edge_tables, LOGGED_ALREADY,
                   dependency_order, project_node_id, project_id, files,
                   data_table_name, batches, buffers, log, clock, runs,
                   ensure_calls, ensure_count, last_ensure, resolved, db_work,
                   at_start>>
(***************************************************************************)
(* load_vertices, lines 72-133, as called at line 289.                     *)
(***************************************************************************)
\* the type the loaders look at next
NextEntity == dependency_order[entity_index]

\* the type whose file is open
OpenEntity == dependency_order[entity_index - 1]

\* next(iter(set(...)), None): any element of the set, None when it is empty
DataTableNameChoices(mapping, entity_name) ==
    IF DataTableNames(mapping, entity_name) = {} THEN {None}
    ELSE DataTableNames(mapping, entity_name)

LoaderUnchanged ==
    UNCHANGED <<inv, previous_run, ensure, removal, staged, upload, variant, faults, conn, node_program, node_project, edge_projectmemberofprogram,
                dependency_order, project_node_id, project_id, files, mappings,
                runs, ensure_calls, ensure_count, last_ensure, resolved,
                at_start>>

\* no file for the type ends the loop over the types: break for continue
LoadVerticesNoFile_break ==
    /\ pc = "load_vertices" /\ batches = <<>>
    /\ entity_index <= Len(dependency_order)
    /\ PathsFor(files, NextEntity) = <<>>
    /\ log' = Append(log, [level |-> "warning",
                           msg |-> <<"No file found for ">> \o NextEntity
                                   \o <<" skipping">>])
    /\ entity_index' = Len(dependency_order) + 1
    /\ LoaderUnchanged
    /\ UNCHANGED <<node_tables, edge_tables, LOGGED_ALREADY, pc, error,
                   data_table_name, batches, buffers, clock, db_work,
                   run_results>>

\* lines 76-79: no file for the type
LoadVerticesNoFile ==
    /\ pc = "load_vertices" /\ batches = <<>>
    /\ entity_index <= Len(dependency_order)
    /\ PathsFor(files, NextEntity) = <<>>
    /\ log' = Append(log, [level |-> "warning",
                           msg |-> <<"No file found for ">> \o NextEntity
                                   \o <<" skipping">>])
    /\ entity_index' = entity_index + 1
    /\ LoaderUnchanged
    /\ UNCHANGED <<node_tables, edge_tables, LOGGED_ALREADY, pc, error,
                   data_table_name, batches, buffers, clock, db_work,
                   run_results>>

\* lines 80-88: a file, but no vertex table for the type
LoadVerticesNoMapping ==
    /\ pc = "load_vertices" /\ batches = <<>>
    /\ entity_index <= Len(dependency_order)
    /\ PathsFor(files, NextEntity) # <<>>
    /\ \E t \in DataTableNameChoices(mappings, NextEntity) :
          /\ t \in {None, <<>>}
          /\ data_table_name' = t
    /\ log' = Append(log, [level |-> "warning",
                           msg |-> <<"No mapping found for ">> \o NextEntity
                                   \o <<" skipping">>])
    /\ entity_index' = entity_index + 1
    /\ LoaderUnchanged
    /\ UNCHANGED <<node_tables, edge_tables, LOGGED_ALREADY, pc, error,
                   batches, buffers, clock, db_work, run_results>>

\* lines 76-100: the file of the type is read and cut into batches
LoadVerticesOpen ==
    /\ pc = "load_vertices" /\ batches = <<>>
    /\ entity_index <= Len(dependency_order)
    /\ PathsFor(files, NextEntity) # <<>>
    /\ \E t \in DataTableNameChoices(mappings, NextEntity) :
          /\ t \notin {None, <<>>}
          /\ data_table_name' = t
    /\ batches' = chunk(Head(PathsFor(files, NextEntity)).lines, VertexBatchLines)
    /\ entity_index' = entity_index + 1
    /\ LoaderUnchanged
    /\ UNCHANGED <<node_tables, edge_tables, LOGGED_ALREADY, pc, error,
                   buffers, log, clock, db_work, run_results>>

\* lines 100-132: one batch is staged, copied, merged and committed; a
\* statement that raises ends the invocation and rolls the batch back
LoadVerticesBatch ==
    /\ pc = "load_vertices" /\ batches # <<>>
    /\ clock' = clock + 1
    /\ db_work' = TRUE
    /\ LET rows == StageVertexBatch(Head(batches), project_id, clock + 1)
       IN IF VertexMergeRaises(rows)
          THEN /\ Finish("database error") /\ Record
               /\ UNCHANGED <<node_tables, batches>>
          ELSE /\ node_tables' = [node_tables EXCEPT ![data_table_name] =
                                      MergeVertices(@, rows)]
               /\ batches' = Tail(batches)
               /\ UNCHANGED <<pc, error, run_results>>
    /\ LoaderUnchanged
    /\ UNCHANGED <<edge_tables, LOGGED_ALREADY, entity_index, data_table_name,
                   buffers, log>>

\* line 133 and lines 291-292: load_vertices returns, load_edges is next
LoadVerticesReturn ==
    /\ pc = "load_vertices" /\ batches = <<>>
    /\ entity_index > Len(dependency_order)
    /\ pc' = "load_edges"
    /\ entity_index' = 1
    /\ LoaderUnchanged
    /\ UNCHANGED <<node_tables, edge_tables, LOGGED_ALREADY, error,
                   data_table_name, batches, buffers, log, clock, db_work,
                   run_results>>

(***************************************************************************)
(* load_edges, lines 136-235, as called at line 292.                       *)
(***************************************************************************)
\* lines 140-143: no file for the type
LoadEdgesNoFile ==
    /\ pc = "load_edges" /\ batches = <<>> /\ buffers = <<>>
    /\ entity_index <= Len(dependency_order)
    /\ PathsFor(files, NextEntity) = <<>>
    /\ log' = Append(log, [level |-> "warning",
                           msg |-> <<"No file found for ">> \o NextEntity
                                   \o <<" skipping">>])
    /\ entity_index' = entity_index + 1
    /\ LoaderUnchanged
    /\ UNCHANGED <<node_tables, edge_tables, LOGGED_ALREADY, pc, error,
                   data_table_name, batches, buffers, clock, db_work,
                   run_results>>

\* lines 140-151: the path of the file of the type is printed (line 146),
\* the file is read and cut into batches
LoadEdgesOpen ==
    /\ pc = "load_edges" /\ batches = <<>> /\ buffers = <<>>
    /\ entity_index <= Len(dependency_order)
    /\ PathsFor(files, NextEntity) # <<>>
    /\ log' = Append(log, [level |-> "print",
                           msg |-> Head(PathsFor(files, NextEntity)).path])
    /\ batches' = chunk(Head(PathsFor(files, NextEntity)).lines, EdgeBatchLines)
    /\ entity_index' = entity_index + 1
    /\ LoaderUnchanged
    /\ UNCHANGED <<node_tables, edge_tables, LOGGED_ALREADY, pc, error,
                   data_table_name, buffers, clock, db_work, run_results>>

\* lines 151-207: the lines of one batch are staged into one buffer per table
LoadEdgesStage ==
    /\ pc = "load_edges" /\ batches # <<>> /\ buffers = <<>>
    /\ clock' = clock + 1
    /\ LET acc == StageEdgeBatch(
                      [buffers |-> <<>>, logged |-> LOGGED_ALREADY, log |-> log],
                      OpenEntity, Head(batches), mappings, dependency_order,
                      project_node_id, clock + 1)
       IN /\ buffers' = acc.buffers
          /\ LOGGED_ALREADY' = acc.logged
          /\ log' = acc.log
    /\ batches' = Tail(batches)
    /\ LoaderUnchanged
    /\ UNCHANGED <<node_tables, edge_tables, pc, error, entity_index,
                   data_table_name, db_work, run_results>>

\* lines 208-234: the next buffer of the batch is copied, merged and
\* committed; a statement that raises ends the invocation
LoadEdgesMerge ==
    /\ pc = "load_edges" /\ buffers # <<>>
    /\ db_work' = TRUE
    /\ LET buf == Head(buffers)
       IN IF EdgeMergeRaises(buf.rows)
          THEN /\ Finish("database error") /\ Record
               /\ UNCHANGED <<edge_tables, buffers>>
          ELSE /\ edge_tables' = [edge_tables EXCEPT ![buf.table_name] =
                                      MergeEdges(@, buf.rows)]
               /\ buffers' = Tail(buffers)
               /\ UNCHANGED <<pc, error, run_results>>
    /\ LoaderUnchanged
    /\ UNCHANGED <<node_tables, LOGGED_ALREADY, entity_index, data_table_name,
                   batches, log, clock>>

\* line 235 and line 293: load_edges returns and meta_upload is done
LoadEdgesReturn ==
    /\ pc = "load_edges" /\ batches = <<>> /\ buffers = <<>>
    /\ entity_index > Len(dependency_order)
    /\ Finish("none") /\ Record
    /\ LoaderUnchanged
    /\ UNCHANGED <<node_tables, edge_tables, LOGGED_ALREADY, entity_index,
                   data_table_name, batches, buffers, log, clock, db_work>>

(***************************************************************************)
(* empty_project, lines 361-395, and graph rm, src/aced_submission/meta.py *)
(* lines 142-166: the two operations that delete rows of the store.        *)
(***************************************************************************)
\* what no step of a removal changes: a removal is made between two
\* invocations, whose results it leaves in run_results
RemovalUnchanged ==
    UNCHANGED <<inv, previous_run, ensure, staged, upload, variant, faults, conn,
                node_program, edge_projectmemberofprogram, edge_tables,
                LOGGED_ALREADY, dependency_order, project_node_id, project_id,
                files, mappings, entity_index, data_table_name, batches,
                buffers, log, clock, runs, ensure_calls, ensure_count,
                last_ensure, resolved, db_work, at_start, run_results>>

\* the call has ended, by returning or by raising
RemovalEnds(raised_) ==
    /\ removal' = [NoRemoval EXCEPT !.count = removal.count + 1,
                                    !.raised = raised_]
    /\ pc' = "idle"
    /\ error' = "none"

\* lines 364-382: the assertion on config_path, the dependency order, the
\* mappings of the dictionary and the connection; the dictionary path is one
\* meta_upload accepts
EmptyProjectStart ==
    /\ pc \in {"idle", "done", "failed"}
    /\ removal.count < MaxRemovals
    /\ inv.dictionary_path # <<>>
    /\ \E program_ \in ProgramNames, project_ \in ProjectNames :
          IF ~inv.config_is_file \/ TableMappings(inv).raised # "none"
          THEN RemovalEnds(TRUE)
          ELSE /\ removal' = [removal EXCEPT
                      !.project_id = ProjectIdOf(program_, project_),
                      !.dependency_order = FilterDependencyOrder(inv.config_order),
                      !.mappings = TableMappings(inv).mapping,
                      !.entity_index = 1,
                      !.log = <<>>]
               /\ pc' = "empty_project"
               /\ error' = "none"
    /\ UNCHANGED <<node_project, node_tables>>
    /\ RemovalUnchanged

\* lines 384-391: no vertex table for the type
EmptyProjectNoMapping ==
    /\ pc = "empty_project"
    /\ removal.entity_index <= Len(removal.dependency_order)
    /\ LET entity_name == removal.dependency_order[removal.entity_index]
       IN /\ \E t \in DataTableNameChoices(removal.mappings, entity_name) :
                t \in {None, <<>>}
          /\ removal' = [removal EXCEPT
                !.entity_index = @ + 1,
                !.log = Append(@, [level |-> "warning",
                                   msg |-> <<"No mapping found for ">>
                                           \o entity_name \o <<" skipping">>])]
    /\ UNCHANGED <<pc, error, node_project, node_tables>>
    /\ RemovalUnchanged

\* DELETE FROM <table> WHERE _props->>'project_id' = project_id; the rows of
\* node_project carry no project_id
DeleteOfProject(tables, data_table_name_, project_id_) ==
    IF data_table_name_ \in DOMAIN tables
    THEN [tables EXCEPT ![data_table_name_] =
             {r \in @ : r.props["project_id"] # project_id_}]
    ELSE tables

\* lines 384-392: the rows of the project are deleted from the table any of
\* the mappings names for the type, and the delete is committed
EmptyProjectDelete ==
    /\ pc = "empty_project"
    /\ removal.entity_index <= Len(removal.dependency_order)
    /\ \E t \in DataTableNameChoices(removal.mappings,
                    removal.dependency_order[removal.entity_index]) :
          /\ t \notin {None, <<>>}
          /\ node_tables' = DeleteOfProject(node_tables, t, removal.project_id)
    /\ removal' = [removal EXCEPT !.entity_index = @ + 1]
    /\ UNCHANGED <<pc, error, node_project>>
    /\ RemovalUnchanged

\* lines 394-395: the commit after the last type, and the return
EmptyProjectReturn ==
    /\ pc = "empty_project"
    /\ removal.entity_index > Len(removal.dependency_order)
    /\ RemovalEnds(FALSE)
    /\ UNCHANGED <<node_project, node_tables>>
    /\ RemovalUnchanged

\* f"node_{_.lower()}"
NodeTableOf(entity_name) == <<"n", "o", "d", "e", "_">> \o Lower(entity_name)

\* delete from node_<type> where _props->>'project_id' = project_id, for the
\* types of the dependency order
GraphRmNodes(tables, order, project_id_) ==
    [t \in DOMAIN tables |->
        IF \E i \in 1..Len(order) : NodeTableOf(order[i]) = t
        THEN {r \in tables[t] : r.props["project_id"] # project_id_}
        ELSE tables[t]]

\* delete from node_project where _props->>'code' = project
GraphRmProject(projects, project_) ==
    SelectSeq(projects, LAMBDA r : r.props.code # project_)

\* meta.py, lines 142-166: graph rm --project_id <program>-<project>, one
\* transaction over the types in reverse order and node_project; a type
\* whose table the database does not have makes its delete raise, and the
\* transaction is rolled back
GraphRm ==
    /\ pc \in {"idle", "done", "failed"}
    /\ removal.count < MaxRemovals
    /\ \E program_ \in ProgramNames, project_ \in ProjectNames,
          tables_exist \in BOOLEAN :
          LET order == FilterDependencyOrder(inv.config_order)
              unknown == {i \in 1..Len(order) :
                             NodeTableOf(order[i]) \notin DOMAIN node_tables}
          IN /\ (unknown = {}) => tables_exist
             /\ IF ~inv.config_is_file \/ ~tables_exist
                THEN /\ RemovalEnds(TRUE)
                     /\ UNCHANGED <<node_project, node_tables>>
                ELSE /\ node_tables' = GraphRmNodes(node_tables, order,
                                           ProjectIdOf(program_, project_))
                     /\ node_project' = GraphRmProject(node_project, project_)
                     /\ RemovalEnds(FALSE)
    /\ RemovalUnchanged

Next ==
    \/ EnsureProjectCall
    \/ EnsureProjectSelect
    \/ EnsureProjectEdge
    \/ MetaUploadValidate
    \/ MetaUploadEnsureProject
    \/ MetaUploadCheckProject
    \/ MetaUploadGlob
    \/ MetaUploadMappings
    \/ LoadVerticesNoFile
    \/ LoadVerticesNoMapping
    \/ LoadVerticesOpen
    \/ LoadVerticesBatch
    \/ LoadVerticesReturn
    \/ LoadEdgesNoFile
    \/ LoadEdgesOpen
    \/ LoadEdgesStage
    \/ LoadEdgesMerge
    \/ LoadEdgesReturn

Spec == Init /\ [][Next]_vars

\* the process loads with meta_upload and removes with empty_project and
\* graph rm
NextRemovals ==
    \/ MetaUploadValidate
    \/ MetaUploadEnsureProject
    \/ EnsureProjectSelect
    \/ EnsureProjectEdge
    \/ MetaUploadCheckProject
    \/ MetaUploadGlob
    \/ MetaUploadMappings
    \/ LoadVerticesNoFile
    \/ LoadVerticesNoMapping
    \/ LoadVerticesOpen
    \/ LoadVerticesBatch
    \/ LoadVerticesReturn
    \/ LoadEdgesNoFile
    \/ LoadEdgesOpen
    \/ LoadEdgesStage
    \/ LoadEdgesMerge
    \/ LoadEdgesReturn
    \/ EmptyProjectStart
    \/ EmptyProjectNoMapping
    \/ EmptyProjectDelete
    \/ EmptyProjectReturn
    \/ GraphRm

SpecRemovals == Init /\ [][NextRemovals]_vars
(***************************************************************************)
(* The same process against a database that fails statements: a lost      *)
(* connection, a timeout, a full disk. psycopg2 raises, nothing in the     *)
(* module catches, and the transaction of the batch is rolled back.        *)
(***************************************************************************)
\* one transaction per file: a statement that raises takes the batches of
\* the file committed before it along
LoadVerticesBatchFails_file_rollback ==
    /\ pc = "load_vertices" /\ batches # <<>>
    /\ faults < MaxFaults
    /\ faults' = faults + 1
    /\ db_work' = TRUE
    /\ node_tables' = [node_tables EXCEPT ![data_table_name] =
                          {r \in @ : r.created <= at_start.clock}]
    /\ Finish("database error")
    /\ run_results' = Append(run_results,
                             [CurrentStore EXCEPT !.node_tables = node_tables'])
    /\ UNCHANGED <<inv, previous_run, ensure, removal, staged, upload, variant, conn, node_program, node_project,
                   edge_projectmemberofprogram, edge_tables,
                   LOGGED_ALREADY, dependency_order, project_node_id,
                   project_id, files, mappings, entity_index, data_table_name,
                   batches, buffers, log, clock, runs, ensure_calls,
                   ensure_count, last_ensure, resolved, at_start>>

\* lines 103-132: a statement of a vertex batch raises
LoadVerticesBatchFails ==
    /\ pc = "load_vertices" /\ batches # <<>>
    /\ faults < MaxFaults
    /\ faults' = faults + 1
    /\ db_work' = TRUE
    /\ Finish("database error") /\ Record
    /\ UNCHANGED <<inv, previous_run, ensure, removal, staged, upload, variant, conn, node_program, node_project,
                   edge_projectmemberofprogram, node_tables, edge_tables,
                   LOGGED_ALREADY, dependency_order, project_node_id,
                   project_id, files, mappings, entity_index, data_table_name,
                   batches, buffers, log, clock, runs, ensure_calls,
                   ensure_count, last_ensure, resolved, at_start>>

\* line 133: the commit after the file of a type raises
LoadVerticesCommitFails ==
    /\ pc = "load_vertices" /\ batches = <<>>
    /\ entity_index > 1
    /\ PathsFor(files, OpenEntity) # <<>>
    /\ data_table_name \notin {None, <<>>}
    /\ faults < MaxFaults
    /\ faults' = faults + 1
    /\ db_work' = TRUE
    /\ Finish("database error") /\ Record
    /\ UNCHANGED <<inv, previous_run, ensure, removal, staged, upload, variant, conn, node_program, node_project,
                   edge_projectmemberofprogram, node_tables, edge_tables,
                   LOGGED_ALREADY, dependency_order, project_node_id,
                   project_id, files, mappings, entity_index, data_table_name,
                   batches, buffers, log, clock, runs, ensure_calls,
                   ensure_count, last_ensure, resolved, at_start>>

\* lines 212-234: a statement of the merge of one buffer raises; the buffers
\* of the batch merged before it are committed
LoadEdgesMergeFails ==
    /\ pc = "load_edges" /\ buffers # <<>>
    /\ faults < MaxFaults
    /\ faults' = faults + 1
    /\ db_work' = TRUE
    /\ Finish("database error") /\ Record
    /\ UNCHANGED <<inv, previous_run, ensure, removal, staged, upload, variant, conn, node_program, node_project,
                   edge_projectmemberofprogram, node_tables, edge_tables,
                   LOGGED_ALREADY, dependency_order, project_node_id,
                   project_id, files, mappings, entity_index, data_table_name,
                   batches, buffers, log, clock, runs, ensure_calls,
                   ensure_count, last_ensure, resolved, at_start>>

\* line 235: the commit after the file of a type raises; every buffer of
\* the file was committed at line 234
LoadEdgesCommitFails ==
    /\ pc = "load_edges" /\ batches = <<>> /\ buffers = <<>>
    /\ entity_index > 1
    /\ PathsFor(files, OpenEntity) # <<>>
    /\ faults < MaxFaults
    /\ faults' = faults + 1
    /\ db_work' = TRUE
    /\ Finish("database error") /\ Record
    /\ UNCHANGED <<inv, previous_run, ensure, removal, staged, upload, variant, conn, node_program, node_project,
                   edge_projectmemberofprogram, node_tables, edge_tables,
                   LOGGED_ALREADY, dependency_order, project_node_id,
                   project_id, files, mappings, entity_index, data_table_name,
                   batches, buffers, log, clock, runs, ensure_calls,
                   ensure_count, last_ensure, resolved, at_start>>

\* lines 310-322 of the call of line 253: the select of the programs, the
\* insert of the program or its commit raises; no row was committed
MetaUploadEnsureProjectFails ==
    /\ pc = "ensure_project"
    /\ faults < MaxFaults
    /\ faults' = faults + 1
    /\ db_work' = TRUE
    /\ ensure_count' = ensure_count + 1
    /\ last_ensure' = [program |-> inv.program, project |-> inv.project,
                       project_node_id |-> None, returned |-> None,
                       raised |-> TRUE,
                       again |-> resolved[<<inv.program, inv.project>>].project_node_id,
                       before |-> BootstrapStore, after |-> BootstrapStore]
    /\ Finish("database error") /\ Record
    /\ UNCHANGED <<inv, previous_run, ensure, removal, staged, upload, variant, conn,
                   node_program, node_project, edge_projectmemberofprogram,
                   node_tables, edge_tables, LOGGED_ALREADY, dependency_order,
                   project_node_id, project_id, files, mappings, entity_index,
                   data_table_name, batches, buffers, log, clock, runs,
                   ensure_calls, resolved, at_start>>

\* lines 256-267: the connect of line 256 or the select of line 262 or of
\* line 267 raises, after ensure_project has committed; project_node_id and
\* project_id are not bound yet
MetaUploadCheckProjectFails ==
    /\ pc = "check_project"
    /\ faults < MaxFaults
    /\ faults' = faults + 1
    /\ db_work' = TRUE
    /\ Finish("database error") /\ Record
    /\ UNCHANGED <<inv, previous_run, ensure, removal, staged, upload, variant, conn,
                   node_program, node_project, edge_projectmemberofprogram,
                   node_tables, edge_tables, LOGGED_ALREADY, dependency_order,
                   project_node_id, project_id, files, mappings, entity_index,
                   data_table_name, batches, buffers, log, clock, runs,
                   ensure_calls, ensure_count, last_ensure, resolved, at_start>>

\* a statement of the running call of ensure_project raises: the select of
\* the project, the insert of the project or its commit (lines 328-348),
\* the insert of the edge or its commit (lines 350-354); what the call has
\* committed stays
EnsureProjectFails ==
    /\ pc \in {"ensure_project_select", "ensure_project_edge"}
    /\ faults < MaxFaults
    /\ faults' = faults + 1
    /\ UNCHANGED <<node_project, edge_projectmemberofprogram>>
    /\ LET first == resolved[<<ensure.program, ensure.project>>]
       IN /\ ensure_count' = ensure_count + 1
          /\ last_ensure' = [program |-> ensure.program,
                             project |-> ensure.project,
                             project_node_id |-> None, returned |-> None,
                             raised |-> TRUE,
                             again |-> first.project_node_id,
                             before |-> ensure.before,
                             after |-> BootstrapStore]
          /\ ensure' = NoCall
          /\ IF ensure.caller = "meta_upload"
             THEN Finish("database error") /\ Record
             ELSE pc' = ensure.return_pc /\ UNCHANGED <<error, run_results>>
    /\ UNCHANGED <<inv, previous_run, removal, staged, upload, variant, conn, node_program,
                   node_tables, edge_tables, LOGGED_ALREADY, dependency_order,
                   project_node_id, project_id, files, mappings, entity_index,
                   data_table_name, batches, buffers, log, clock, runs,
                   ensure_calls, resolved, db_work, at_start>>

\* the process runs meta_upload only
NextFaults ==
    \/ MetaUploadValidate
    \/ MetaUploadEnsureProject
    \/ EnsureProjectSelect
    \/ EnsureProjectEdge
    \/ MetaUploadCheckProject
    \/ MetaUploadGlob
    \/ MetaUploadMappings
    \/ LoadVerticesNoFile
    \/ LoadVerticesNoMapping
    \/ LoadVerticesOpen
    \/ LoadVerticesBatch
    \/ LoadVerticesReturn
    \/ LoadEdgesNoFile
    \/ LoadEdgesOpen
    \/ LoadEdgesStage
    \/ LoadEdgesMerge
    \/ LoadEdgesReturn
    \/ MetaUploadEnsureProjectFails
    \/ EnsureProjectFails
    \/ MetaUploadCheckProjectFails
    \/ LoadVerticesBatchFails
    \/ LoadVerticesCommitFails
    \/ LoadEdgesMergeFails
    \/ LoadEdgesCommitFails

SpecFaults == Init /\ [][NextFaults]_vars

(***************************************************************************)
(* ensure_project(inv.program, inv.project), lines 301-358, run at the     *)
(* same time on several connections, one statement per step. The           *)
(* connections are in READ COMMITTED, the default of PostgreSQL: a         *)
(* statement sees what was committed when it begins. node_id is the        *)
(* primary key of the node tables and (src_id, dst_id) that of the edge    *)
(* table, so an insert of a key that another transaction has inserted and  *)
(* not yet committed waits for that transaction to end.                    *)
(***************************************************************************)
Connections == 1..MaxConnections

\* a connection before its first statement
ConnStart ==
    [pc |-> "select_programs", program_node_id |-> None,
     project_node_id |-> None, pending_table |-> "none", pending |-> <<>>,
     raised |-> FALSE]

\* the rows have the same primary key in the table
SameKey(table, a, b) ==
    IF table = "edge_projectmemberofprogram"
    THEN a.src_id = b.src_id /\ a.dst_id = b.dst_id
    ELSE a.node_id = b.node_id

\* an insert that never waits: the table has no primary key
InsertWaits_never(c, table, row) == FALSE

\* INSERT ... ON CONFLICT DO NOTHING waits while another transaction holds an
\* uncommitted row of the same key
InsertWaits(c, table, row) ==
    \E o \in Connections \ {c} :
        /\ conn[o].pending_table = table
        /\ conn[o].pending # <<>>
        /\ SameKey(table, Head(conn[o].pending), row)

\* what the concurrent calls leave alone
ConcurrentUnchanged ==
    UNCHANGED <<inv, previous_run, ensure, removal, staged, upload, variant, faults, node_tables, edge_tables, LOGGED_ALREADY, pc,
                error, dependency_order, project_node_id, project_id, files,
                mappings, entity_index, data_table_name, batches, buffers, log,
                clock, runs, ensure_calls, ensure_count, last_ensure, resolved,
                db_work, at_start, run_results>>

\* lines 310-317 and 325: select the programs and look for the name
ConnSelectPrograms(c) ==
    /\ conn[c].pc = "select_programs"
    /\ LET found == ProgramsNamed(node_program, inv.program)
       IN conn' = [conn EXCEPT ![c] =
              IF found = <<>>
              THEN [@ EXCEPT !.pc = "insert_program",
                             !.program_node_id = uuid5(PROGRAM_SEED, inv.program)]
              ELSE [@ EXCEPT !.pc = "select_project",
                             !.program_node_id = Head(found).node_id]]
    /\ UNCHANGED <<node_program, node_project, edge_projectmemberofprogram>>
    /\ ConcurrentUnchanged

\* lines 318-321: insert the program row
ConnInsertProgram(c) ==
    /\ conn[c].pc = "insert_program"
    /\ LET row == [node_id |-> conn[c].program_node_id,
                   props |-> ProgramProps(inv.program)]
       IN /\ ~InsertWaits(c, "node_program", row)
          /\ conn' = [conn EXCEPT ![c] =
                 [@ EXCEPT !.pc = "commit_program",
                           !.pending_table = "node_program",
                           !.pending = IF InsertNodeIgnore(node_program, row) = node_program
                                       THEN <<>> ELSE <<row>>]]
    /\ UNCHANGED <<node_program, node_project, edge_projectmemberofprogram>>
    /\ ConcurrentUnchanged

\* line 322: commit
ConnCommitProgram(c) ==
    /\ conn[c].pc = "commit_program"
    /\ node_program' = node_program \o conn[c].pending
    /\ conn' = [conn EXCEPT ![c] =
           [@ EXCEPT !.pc = "select_project", !.pending_table = "none",
                     !.pending = <<>>]]
    /\ UNCHANGED <<node_project, edge_projectmemberofprogram>>
    /\ ConcurrentUnchanged
\* lines 328-342: select the project of the program by its code
ConnSelectProject(c) ==
    /\ conn[c].pc = "select_project"
    /\ LET hits == ProjectOfProgram(node_program, node_project,
                                    edge_projectmemberofprogram,
                                    inv.program, inv.project)
       IN conn' = [conn EXCEPT ![c] =
              IF ProjectQueryFails(node_program, inv.program)
              THEN [@ EXCEPT !.pc = "done", !.raised = TRUE]
              ELSE IF hits # <<>>
              THEN [@ EXCEPT !.pc = "done",
                             !.project_node_id = Head(hits).node_id]
              ELSE [@ EXCEPT !.pc = "insert_project",
                             !.project_node_id = NewProjectNodeId(inv.project)]]
    /\ UNCHANGED <<node_program, node_project, edge_projectmemberofprogram>>
    /\ ConcurrentUnchanged

\* lines 343-347: insert the project row
ConnInsertProject(c) ==
    /\ conn[c].pc = "insert_project"
    /\ LET row == [node_id |-> conn[c].project_node_id,
                   props |-> ProjectProps(inv.project)]
       IN /\ ~InsertWaits(c, "node_project", row)
          /\ conn' = [conn EXCEPT ![c] =
                 [@ EXCEPT !.pc = "commit_project",
                           !.pending_table = "node_project",
                           !.pending = IF InsertNodeIgnore(node_project, row) = node_project
                                       THEN <<>> ELSE <<row>>]]
    /\ UNCHANGED <<node_program, node_project, edge_projectmemberofprogram>>
    /\ ConcurrentUnchanged

\* line 348: commit
ConnCommitProject(c) ==
    /\ conn[c].pc = "commit_project"
    /\ node_project' = node_project \o conn[c].pending
    /\ conn' = [conn EXCEPT ![c] =
           [@ EXCEPT !.pc = "insert_edge", !.pending_table = "none",
                     !.pending = <<>>]]
    /\ UNCHANGED <<node_program, edge_projectmemberofprogram>>
    /\ ConcurrentUnchanged

\* lines 350-353: insert the membership edge
ConnInsertEdge(c) ==
    /\ conn[c].pc = "insert_edge"
    /\ LET row == [src_id |-> conn[c].project_node_id,
                   dst_id |-> conn[c].program_node_id]
       IN /\ ~InsertWaits(c, "edge_projectmemberofprogram", row)
          /\ conn' = [conn EXCEPT ![c] =
                 [@ EXCEPT !.pc = "commit_edge",
                           !.pending_table = "edge_projectmemberofprogram",
                           !.pending =
                               IF InsertEdgeIgnore(edge_projectmemberofprogram, row)
                                      = edge_projectmemberofprogram
                               THEN <<>> ELSE <<row>>]]
    /\ UNCHANGED <<node_program, node_project, edge_projectmemberofprogram>>
    /\ ConcurrentUnchanged

\* line 354: commit; lines 357-358: the call returns
ConnCommitEdge(c) ==
    /\ conn[c].pc = "commit_edge"
    /\ edge_projectmemberofprogram' =
           edge_projectmemberofprogram \cup Range(conn[c].pending)
    /\ conn' = [conn EXCEPT ![c] =
           [@ EXCEPT !.pc = "done", !.pending_table = "none", !.pending = <<>>]]
    /\ UNCHANGED <<node_program, node_project>>
    /\ ConcurrentUnchanged

\* the store is one of the initial stores and every connection is about to
\* run ensure_project with the names of the end-to-end scenario
InitConcurrent ==
    /\ inv = EndToEnd
    /\ \E st \in InitialStores :
          /\ node_program = st.node_program
          /\ node_project = st.node_project
          /\ edge_projectmemberofprogram = st.edge_projectmemberofprogram
    /\ node_tables = [t \in NodeTableNames(inv.dictionary) |-> {}]
    /\ edge_tables = [t \in EdgeTableNames(inv.dictionary) |-> {}]
    /\ LOGGED_ALREADY = <<>>
    /\ pc = "idle"
    /\ error = "none"
    /\ dependency_order = <<>>
    /\ project_node_id = None
    /\ project_id = None
    /\ files = <<>>
    /\ mappings = <<>>
    /\ entity_index = 1
    /\ data_table_name = None
    /\ batches = <<>>
    /\ buffers = <<>>
    /\ log = <<>>
    /\ clock = 0
    /\ runs = 0
    /\ ensure_calls = 0
    /\ ensure_count = 0
    /\ last_ensure = NoEnsure
    /\ resolved = [pq \in ProgramNames \X ProjectNames |-> Unresolved]
    /\ db_work = FALSE
    /\ run_results = <<>>
    /\ faults = 0
    /\ staged = <<>>
    /\ upload = <<>>
    /\ variant = <<>>
    /\ ensure = NoCall
    /\ previous_run = NoRun
    /\ removal = NoRemoval
    /\ conn = [c \in Connections |-> ConnStart]
    /\ at_start = CurrentStore

NextConcurrent ==
    \E c \in Connections :
        \/ ConnSelectPrograms(c)
        \/ ConnInsertProgram(c)
        \/ ConnCommitProgram(c)
        \/ ConnSelectProject(c)
        \/ ConnInsertProject(c)
        \/ ConnCommitProject(c)
        \/ ConnInsertEdge(c)
        \/ ConnCommitEdge(c)

SpecConcurrent == InitConcurrent /\ [][NextConcurrent]_vars

(***************************************************************************)
(* Properties.                                                             *)
(***************************************************************************)
\* the rows of a table without their created timestamp
SansCreated(rows) == {[r EXCEPT !.created = 0] : r \in rows}

\* two stores hold, table by table, the same number of rows with the same
\* keys and the same props, acl and sysan
SameRows(a, b) ==
    /\ \A t \in DOMAIN a.node_tables :
          /\ SansCreated(a.node_tables[t]) = SansCreated(b.node_tables[t])
          /\ Cardinality(a.node_tables[t]) = Cardinality(b.node_tables[t])
    /\ \A t \in DOMAIN a.edge_tables :
          /\ SansCreated(a.edge_tables[t]) = SansCreated(b.edge_tables[t])
          /\ Cardinality(a.edge_tables[t]) = Cardinality(b.edge_tables[t])

\* C1: a meta_upload run over the same files, mapping, program and project as
\* the run before it leaves every vertex table and every edge table with the
\* rows the run before left: the same keys and the same props, no row added
\* and none duplicated; only created may differ.
C1_SecondRunSameRows ==
    \A i \in 2..Len(run_results) : SameRows(run_results[i], run_results[i - 1])

\* a second run has completed after a first one that loaded vertices and
\* edges, and has stamped the rows anew
C1_Witness ==
    /\ Len(run_results) = 2 /\ pc = "done" /\ inv = Study
    /\ run_results[1].node_tables[node_patient] # {}
    /\ run_results[1].edge_tables[edge_observation_patient] # {}
    /\ run_results[2].node_tables[node_patient]
          # run_results[1].node_tables[node_patient]

\* the types of the dependency order whose file load_vertices loads, each
\* with the table it loads it into
LoadedTypes ==
    {T \in Range(dependency_order) :
        PathsFor(files, T) # <<>> /\ DataTableNames(mappings, T) # {}}

\* every vertex batch of the current invocation is committed: each record of
\* each loaded file has its row, with the project id, in a table of its type
AllVerticesCommitted ==
    \A T \in LoadedTypes :
        LET lines == Head(PathsFor(files, T)).lines
            rows == UNION {node_tables[t] : t \in DataTableNames(mappings, T)}
        IN \A i \in 1..Len(lines) : \E r \in rows :
              /\ r.node_id = lines[i].id
              /\ r.props.project_id = project_id
              /\ r.created > at_start.clock

\* C2: when load_edges begins, and as long as it runs, every vertex batch of
\* the invocation is committed, and no vertex table changes any more: no
\* vertex batch is committed after the first edge batch began.
C2_VerticesBeforeEdges ==
    [][/\ pc' = "load_edges" => AllVerticesCommitted'
       /\ pc = "load_edges" => node_tables' = node_tables]_vars

\* load_edges has staged a batch of a load whose vertex files hold records
C2_Witness ==
    /\ pc = "load_edges" /\ buffers # <<>> /\ inv = Study
    /\ \A T \in {sResearchStudy, sPatient, sObservation} : T \in LoadedTypes

\* the store the first invocation started from was empty
StartedEmpty ==
    /\ runs = 1
    /\ at_start.node_program = <<>> /\ at_start.node_project = <<>>
    /\ at_start.edge_projectmemberofprogram = {}
    /\ \A t \in DOMAIN at_start.node_tables : at_start.node_tables[t] = {}
    /\ \A t \in DOMAIN at_start.edge_tables : at_start.edge_tables[t] = {}

\* C9: the end-to-end scenario on an empty store ends with node_patient
\* holding row p1 with props.project_id "prog-proj", node_observation holding
\* row o1, and the Observation-to-Patient edge table holding exactly the
\* row (o1, p1).
C9_EndToEnd ==
    (inv = EndToEnd /\ StartedEmpty /\ pc = "done") =>
        /\ {<<r.node_id, r.props.project_id>> : r \in node_tables[node_patient]}
              = {<<sp1, <<"p","r","o","g","-","p","r","o","j">> >>}
        /\ Cardinality(node_tables[node_patient]) = 1
        /\ \E r \in node_tables[node_observation] : r.node_id = so1
        /\ {<<e.src_id, e.dst_id>> : e \in edge_tables[edge_observation_patient]}
              = {<<so1, sp1>>}
        /\ Cardinality(edge_tables[edge_observation_patient]) = 1

\* the end-to-end load has completed on an empty store
C9_Witness ==
    /\ inv = EndToEnd /\ StartedEmpty /\ pc = "done"
    /\ node_tables[node_patient] # {}

\* the file the loaders read for a type of the dependency order
FileOf(T) == Head(PathsFor(files, T))

\* the types of the dependency order whose file load_edges reads
EdgeTypes == {T \in Range(dependency_order) : PathsFor(files, T) # <<>>}

\* the last relation of a list that points to dst_id
LastTo(relations, dst_id) ==
    relations[CHOOSE i \in 1..Len(relations) :
        /\ relations[i].dst_id = dst_id
        /\ \A j \in (i + 1)..Len(relations) : relations[j].dst_id # dst_id]

\* the rows of all edge tables but one that link src to dst
RowsElsewhere(table_name, src, dst) ==
    {<<t, e>> \in UNION {{t} \X edge_tables[t] : t \in DOMAIN edge_tables \ {table_name}} :
        e.src_id = src /\ e.dst_id = dst}

\* C3: after a complete load, for every record and every destination id of
\* its relations list, only the last relation to that destination was used:
\* when its pair of types is mapped, its edge table holds exactly one row
\* (record id, destination id) and no other edge table holds such a row;
\* when it is not mapped, no edge table holds such a row.
C3_OneRelationPerDestination ==
    pc = "done" =>
        \A T \in EdgeTypes : \A i \in 1..Len(FileOf(T).lines) :
            LET d_ == FileOf(T).lines[i]
            IN \A dst \in {d_.relations[k].dst_id : k \in 1..Len(d_.relations)} :
                  LET m == EdgeTableMappings(mappings, T,
                                             LastTo(d_.relations, dst).dst_name)
                  IN IF m # <<>>
                     THEN /\ Cardinality({e \in edge_tables[Head(m).tablename] :
                                 e.src_id = d_.id /\ e.dst_id = dst}) = 1
                          /\ RowsElsewhere(Head(m).tablename, d_.id, dst) = {}
                     ELSE RowsElsewhere(<<>>, d_.id, dst) = {}

\* a load has completed for a record with two relations to one destination
\* under different labels, and for one with two relations to one destination
\* under different types
C3_Witness ==
    /\ pc = "done" /\ inv = Study
    /\ \E i \in 1..Len(FileOf(sObservation).lines) :
          LET rels == FileOf(sObservation).lines[i].relations
          IN \E j, k \in 1..Len(rels) :
                /\ j < k /\ rels[j].dst_id = rels[k].dst_id
                /\ rels[j].label # rels[k].label
                /\ rels[j].dst_name = rels[k].dst_name
    /\ \E e \in edge_tables[edge_observation_specimen] :
          e.src_id = so2 /\ e.dst_id = sp2
    /\ \E e \in edge_tables[edge_observation_patient] :
          e.src_id = so1 /\ e.dst_id = sp1

\* C6: after a complete load, every record named ResearchStudy (or
\* research_study) with an empty relations list, in the file of a type that
\* has an edge table to Project, has the row (record id, project_node_id) in
\* that edge table.
C6_StudyLinkedToProject ==
    pc = "done" =>
        \A T \in EdgeTypes : \A i \in 1..Len(FileOf(T).lines) :
            LET d_ == FileOf(T).lines[i]
                m == EdgeTableMappings(mappings, T, sProject)
            IN (/\ d_.name \in {sResearchStudy, sresearch_study}
                /\ d_.relations = <<>>
                /\ m # <<>>)
               => \E e \in edge_tables[Head(m).tablename] :
                     e.src_id = d_.id /\ e.dst_id = project_node_id

\* a load has completed whose ResearchStudy file holds a record without
\* relations, and project_node_id is the id of a project row
C6_Witness ==
    /\ pc = "done" /\ inv = Study
    /\ \E i \in 1..Len(FileOf(sResearchStudy).lines) :
          /\ FileOf(sResearchStudy).lines[i].relations = <<>>
          /\ FileOf(sResearchStudy).lines[i].id = srs1
    /\ \E i \in 1..Len(node_project) : node_project[i].node_id = project_node_id
    /\ \E e \in edge_tables[edge_researchstudy_project] : e.src_id = srs1

\* C4: a call of ensure_project with names it was called with before resolves
\* the project node id the first call resolved, raises nothing and leaves
\* node_program, node_project and edge_projectmemberofprogram as they were;
\* and the id a first call resolved by creating the project row is the uuid5
\* of the project seed and the project name.
C4_EnsureProjectRepeatable ==
    /\ last_ensure.again # None =>
          /\ last_ensure.project_node_id = last_ensure.again
          /\ ~last_ensure.raised
          /\ last_ensure.after = last_ensure.before
    /\ \A pq \in DOMAIN resolved :
          resolved[pq].how = "created" =>
              resolved[pq].project_node_id = uuid5(PROJECT_SEED, pq[2])

\* ensure_project was called again with names whose first call created the
\* project row
C4_Witness ==
    /\ last_ensure.again # None
    /\ resolved[<<last_ensure.program, last_ensure.project>>].how = "created"
    /\ ensure_count >= 2

\* C5: ensure_project returns the project node id it resolved.
C5_EnsureProjectReturnsId ==
    (ensure_count > 0 /\ ~last_ensure.raised) =>
        /\ last_ensure.returned = last_ensure.project_node_id
        /\ \E i \in 1..Len(last_ensure.after.node_project) :
              /\ last_ensure.after.node_project[i].node_id = last_ensure.returned
              /\ last_ensure.after.node_project[i].props.code = last_ensure.project

\* the number of lines of the log that carry a message
Count(lines, msg) == Cardinality({i \in 1..Len(lines) : lines[i].msg = msg})

\* C7: after a complete load, every relation that load_edges uses and whose
\* pair of types has no mapping has no edge row, and the message for its pair
\* was emitted exactly once by the invocation.
C7_UnmappedLoggedOnce ==
    pc = "done" =>
        \A T \in EdgeTypes : \A i \in 1..Len(FileOf(T).lines) :
            LET d_ == FileOf(T).lines[i]
                rels == RelationsOf(d_, project_node_id)
            IN \A k \in 1..Len(rels) :
                  EdgeTableMappings(mappings, T, rels[k].dst_name) = <<>> =>
                      /\ Count(log, NoMappingMsg(T, rels[k].dst_name)) = 1
                      /\ RowsElsewhere(<<>>, d_.id, rels[k].dst_id) = {}

\* the assertion messages of the preconditions of meta_upload
PreconditionErrors ==
    {"source_path should be a directory", "config_path should be a file",
     "dictionary_path cannot be empty", "No files found"}

\* C10: when meta_upload fails on one of its preconditions, no statement was
\* executed on any connection and, when the assertion is raised, no table
\* holds a row it did not hold when the invocation began.
C10_PreconditionsBeforeDatabase ==
    (pc = "failed" /\ error \in PreconditionErrors) =>
        /\ ~db_work
        /\ run_results[Len(run_results)] = at_start

\* a type of the dependency order that has no file named for it, or that no
\* entry of the mapping names as source or destination class
Skipped(T) ==
    \/ \A i \in 1..Len(files) : ~EndsWith(files[i].path, T \o sNdjson)
    \/ \A i \in 1..Len(mappings) :
          /\ Lower(mappings[i].srcclass) # Lower(T)
          /\ Lower(mappings[i].dstclass) # Lower(T)

\* the dependency order without its skipped types
OrderWithoutSkipped == SelectSeq(dependency_order, LAMBDA T : ~Skipped(T))

\* the records of the files of a list of types, in the order of the list and
\* of the files, each with its type
RECURSIVE RecordsOf(_)
RecordsOf(order) ==
    IF order = <<>> THEN <<>>
    ELSE [i \in 1..Len(FileOf(Head(order)).lines) |->
             [T |-> Head(order), d_ |-> FileOf(Head(order)).lines[i]]]
         \o RecordsOf(Tail(order))

\* the vertex tables after the records were upserted one by one
RECURSIVE ExpectedVertices(_, _)
ExpectedVertices(tables, records) ==
    IF records = <<>> THEN tables
    ELSE LET x == Head(records)
             t == CHOOSE n \in DataTableNames(mappings, x.T) : TRUE
         IN ExpectedVertices(
                [tables EXCEPT ![t] =
                    {r \in @ : r.node_id # x.d_.id}
                    \cup {StageVertexRow(x.d_, project_id, 0)}],
                Tail(records))

\* the relations the records carry, each with the type and id of its record
RECURSIVE RelationsCarried(_)
RelationsCarried(records) ==
    IF records = <<>> THEN <<>>
    ELSE LET x == Head(records)
             rels == RelationsOf(x.d_, project_node_id)
         IN [k \in 1..Len(rels) |-> [T |-> x.T, id |-> x.d_.id, rel |-> rels[k]]]
            \o RelationsCarried(Tail(records))

\* the edge tables after the mapped relations were upserted one by one
RECURSIVE ExpectedEdges(_, _)
ExpectedEdges(tables, carried) ==
    IF carried = <<>> THEN tables
    ELSE LET x == Head(carried)
             m == EdgeTableMappings(mappings, x.T, x.rel.dst_name)
         IN ExpectedEdges(
                IF m = <<>> THEN tables
                ELSE [tables EXCEPT ![Head(m).tablename] =
                         {e \in @ : ~(e.src_id = x.id /\ e.dst_id = x.rel.dst_id)}
                         \cup {[src_id |-> x.id, dst_id |-> x.rel.dst_id,
                                acl |-> <<>>, sysan |-> <<>>, props |-> <<>>,
                                created |-> 0]}],
                Tail(carried))

\* C8: after a complete load, every skipped type of the dependency order has
\* its warning in the log, and the vertex and edge tables hold what loading
\* the dependency order without the skipped types gives (created aside).
C8_SkippedTypesLeaveOthersLoaded ==
    pc = "done" =>
        LET records == RecordsOf(OrderWithoutSkipped)
            vertices == ExpectedVertices(at_start.node_tables, records)
            edges == ExpectedEdges(at_start.edge_tables, RelationsCarried(records))
        IN /\ \A T \in Range(dependency_order) :
                 Skipped(T) =>
                     \E i \in 1..Len(log) :
                         /\ log[i].level = "warning"
                         /\ log[i].msg \in
                               {<<"No file found for ">> \o T \o <<" skipping">>,
                                <<"No mapping found for ">> \o T \o <<" skipping">>}
           /\ [t \in DOMAIN node_tables |-> SansCreated(node_tables[t])]
                 = [t \in DOMAIN node_tables |-> SansCreated(vertices[t])]
           /\ [t \in DOMAIN edge_tables |-> SansCreated(edge_tables[t])]
                 = [t \in DOMAIN edge_tables |-> SansCreated(edges[t])]

\* a load has completed whose dependency order holds a type without file
\* and a type with a file but without vertex table, both before a type that
\* was loaded
C8_Witness ==
    /\ pc = "done" /\ inv = Study
    /\ Skipped(sSpecimen) /\ PathsFor(files, sSpecimen) = <<>>
    /\ Skipped(sSubstance) /\ PathsFor(files, sSubstance) # <<>>
    /\ \E r \in node_tables[node_observation] : r.node_id = so3
    /\ \E e \in edge_tables[edge_observation_patient] : e.src_id = so1

\* C11: when the dictionary cannot be fetched or parsed, meta_upload fails
\* with a SchemaLoadError, and no vertex table and no edge table of the load
\* holds a row it did not hold when the invocation began.
C11_SchemaLoadErrorAborts ==
    (pc = "failed" /\ ~inv.dictionary_ok) =>
        /\ error = "SchemaLoadError"
        /\ node_tables = at_start.node_tables
        /\ edge_tables = at_start.edge_tables

\* the vertex and edge tables a single load of the inputs leaves, without a
\* failure, in the store the first invocation of the behaviour started from
FailureFreeLoad ==
    LET records == RecordsOf(OrderWithoutSkipped)
    IN [node_tables |->
            ExpectedVertices([t \in DOMAIN node_tables |-> {}], records),
        edge_tables |->
            ExpectedEdges([t \in DOMAIN edge_tables |-> {}],
                          RelationsCarried(records))]

\* the arguments pass the assertions of meta_upload and the dictionary
\* loads: nothing but the database and the lines of the files can end the
\* load
Loadable ==
    /\ inv.source_is_dir /\ inv.config_is_file /\ inv.dictionary_path # <<>>
    /\ inv.glob # <<>> /\ inv.dictionary_ok

\* the invocation before this one was aborted by a database error, and this
\* one has ended without a failure of the database of its own
RerunEnded ==
    /\ runs >= 2 /\ pc \in {"done", "failed"}
    /\ previous_run.error = "database error"
    /\ faults = previous_run.faults

\* the vertex and edge tables hold the rows a single failure-free load
\* leaves: the same keys, the same props, the same number of rows; only
\* created may differ
SameAsFailureFreeLoad ==
    LET want == FailureFreeLoad
    IN /\ \A t \in DOMAIN node_tables :
             /\ SansCreated(node_tables[t]) = SansCreated(want.node_tables[t])
             /\ Cardinality(node_tables[t]) = Cardinality(want.node_tables[t])
       /\ \A t \in DOMAIN edge_tables :
             /\ SansCreated(edge_tables[t]) = SansCreated(want.edge_tables[t])
             /\ Cardinality(edge_tables[t]) = Cardinality(want.edge_tables[t])

\* C12: when a meta_upload was aborted by a database error, in
\* ensure_project, in a vertex batch, in an edge batch or between them, the
\* next meta_upload over the same inputs finishes, and leaves every vertex
\* and edge table with the rows a single failure-free load leaves.
C12_RerunAfterFailure ==
    (Loadable /\ RerunEnded) => (pc = "done" /\ SameAsFailureFreeLoad)

\* the lines hold an id more than once
RepeatsAnId(lines) ==
    \E i, j \in 1..Len(lines) : i < j /\ lines[i].id = lines[j].id

\* no file holds an id on two lines
NoRepeatedId ==
    \A i \in 1..Len(inv.glob) : ~RepeatsAnId(inv.glob[i].lines)

\* what holds of the rerun: when no file holds an id twice, so that the
\* database error was a failure of the database and not the merge of a
\* batch that proposes a key twice, the next meta_upload finishes and
\* leaves the rows of a failure-free load
RerunAfterDatabaseFailure ==
    (Loadable /\ NoRepeatedId /\ RerunEnded) =>
        (pc = "done" /\ SameAsFailureFreeLoad)

\* a load has completed after a load that a failure of the database stopped
\* when it had committed the patients and the edges of one of the two edge
\* tables of the observations
RerunCompleted ==
    /\ RerunEnded /\ pc = "done" /\ inv = Study /\ Len(run_results) = 2
    /\ run_results[1].node_tables[node_patient] # {}
    /\ run_results[1].edge_tables[edge_observation_patient] # {}
    /\ run_results[1].edge_tables[edge_observation_specimen] = {}
    /\ edge_tables[edge_observation_specimen] # {}

\* C13: node_program never holds two rows with the same name and
\* node_project never holds two rows with the same code, whatever calls of
\* ensure_project were made on a store that had no such rows.
C13_NamesStayUnique ==
    /\ \A i, j \in 1..Len(node_program) :
          i # j => node_program[i].props.name # node_program[j].props.name
    /\ \A i, j \in 1..Len(node_project) :
          i # j => node_project[i].props.code # node_project[j].props.code

\* C14: after a call ensure_project(program, project) that raised nothing,
\* edge_projectmemberofprogram holds a row from the project row the call
\* resolved, a row of node_project with that code, to a row of node_program
\* with that name; also when the project row was there before the call
\* without its edge.
C14_ProjectLinkedToProgram ==
    (ensure_count > 0 /\ ~last_ensure.raised) =>
        LET after == last_ensure.after
        IN \E i \in 1..Len(after.node_program), j \in 1..Len(after.node_project) :
              /\ after.node_program[i].props.name = last_ensure.program
              /\ after.node_project[j].props.code = last_ensure.project
              /\ after.node_project[j].node_id = last_ensure.project_node_id
              /\ \E e \in after.edge_projectmemberofprogram :
                    /\ e.src_id = after.node_project[j].node_id
                    /\ e.dst_id = after.node_program[i].node_id

\* ensure_project was called on a store that held the program row and the
\* project row but no membership edge, and has linked the two
C14_Witness ==
    /\ ensure_count > 0 /\ ~last_ensure.raised
    /\ ProgramsNamed(last_ensure.before.node_program, last_ensure.program) # <<>>
    /\ ProjectsWithCode(last_ensure.before.node_project, last_ensure.project) # <<>>
    /\ last_ensure.before.edge_projectmemberofprogram = {}
    /\ \E e \in last_ensure.after.edge_projectmemberofprogram :
          e.src_id = last_ensure.project_node_id

\* the rows of the store that belong to a pair of names: the programs of the
\* name, the projects of the code that a membership edge ties to such a
\* program, and those edges
RowsFor(st, program_, project_) ==
    LET programs == {p \in Range(st.node_program) : p.props.name = program_}
        edges == {e \in st.edge_projectmemberofprogram :
                     /\ \E p \in programs : p.node_id = e.dst_id
                     /\ \E q \in Range(st.node_project) :
                           q.node_id = e.src_id /\ q.props.code = project_}
    IN [programs |-> programs,
        projects |-> {q \in Range(st.node_project) :
                         \E e \in edges : e.src_id = q.node_id},
        edges |-> edges]

\* C15: when every concurrent call of ensure_project with the same names has
\* returned, none has raised, all resolved the same project node id, the
\* store holds exactly one program row, one project row and one membership
\* edge for the names, and its three tables are the ones a single call on
\* the initial store leaves.
C15_ConcurrentEnsureProject ==
    (\A c \in Connections : conn[c].pc = "done") =>
        LET now == RowsFor(CurrentStore, inv.program, inv.project)
            alone == ensure_project_on(at_start, inv.program, inv.project)
        IN /\ \A c \in Connections :
                 /\ ~conn[c].raised
                 /\ conn[c].project_node_id = alone.project_node_id
           /\ Cardinality(now.programs) = 1
           /\ Cardinality(now.projects) = 1
           /\ Cardinality(now.edges) = 1
           /\ node_program = alone.node_program
           /\ node_project = alone.node_project
           /\ edge_projectmemberofprogram = alone.edge_projectmemberofprogram

\* all calls have returned on a store that was empty, and each of them had
\* found no program row when it selected the programs
C15_Witness ==
    /\ conn # <<>>
    /\ \A c \in Connections :
          /\ conn[c].pc = "done"
          /\ conn[c].program_node_id = uuid5(PROGRAM_SEED, inv.program)
          /\ conn[c].project_node_id = uuid5(PROJECT_SEED, inv.project)
    /\ at_start.node_program = <<>>
    /\ Len(node_program) = 1 /\ Len(node_project) = 1

\* the primary keys of the rows of a vertex table and of an edge table
NodeKeys(table) == {r.node_id : r \in table}

EdgeKeys(table) == {<<e.src_id, e.dst_id>> : e \in table}

\* the rows a step of load_vertices merges into a vertex table: the staged
\* lines of the batch, when the step is the merge of a batch into that table
\* and the merge is committed
VertexBatchOf(t) ==
    IF /\ pc = "load_vertices" /\ batches # <<>> /\ t = data_table_name
       /\ pc' = "load_vertices"
    THEN Range(StageVertexBatch(Head(batches), project_id, clock'))
    ELSE {}

\* the rows a step of load_edges merges into an edge table
EdgeBatchOf(t) ==
    IF /\ pc = "load_edges" /\ buffers # <<>> /\ t = Head(buffers).table_name
       /\ pc' = "load_edges"
    THEN Range(Head(buffers).rows)
    ELSE {}

\* C16: every step of meta_upload (every step that is not one of
\* empty_project or of graph rm) leaves each vertex table and each edge
\* table as it was, but for the rows of the batch the step merges into it:
\* after the step the table holds the rows of the batch as staged (props,
\* acl, sysan and created replaced where the key was there, the row inserted
\* where it was not), every other row unchanged, no key removed, and one row
\* per key.
C16_UpsertSemantics ==
    [][removal' = removal =>
       /\ \A t \in DOMAIN node_tables :
             LET batch == VertexBatchOf(t)
             IN /\ batch \subseteq node_tables'[t]
                /\ {r \in node_tables'[t] : r.node_id \notin NodeKeys(batch)}
                      = {r \in node_tables[t] : r.node_id \notin NodeKeys(batch)}
                /\ NodeKeys(node_tables[t]) \subseteq NodeKeys(node_tables'[t])
                /\ Cardinality(NodeKeys(node_tables'[t]))
                      = Cardinality(node_tables'[t])
       /\ \A t \in DOMAIN edge_tables :
             LET batch == EdgeBatchOf(t)
             IN /\ batch \subseteq edge_tables'[t]
                /\ {e \in edge_tables'[t] :
                        <<e.src_id, e.dst_id>> \notin EdgeKeys(batch)}
                      = {e \in edge_tables[t] :
                            <<e.src_id, e.dst_id>> \notin EdgeKeys(batch)}
                /\ EdgeKeys(edge_tables[t]) \subseteq EdgeKeys(edge_tables'[t])
                /\ Cardinality(EdgeKeys(edge_tables'[t]))
                      = Cardinality(edge_tables'[t])]_vars

\* a second load has merged the first batch of the patients: two rows of
\* node_patient were replaced and the third is the one the first load left
C16_Witness ==
    /\ pc = "load_vertices" /\ runs = 2 /\ inv = Study
    /\ \E r \in node_tables[node_patient] :
          r.node_id = sp1 /\ r.created > at_start.clock
    /\ \E r \in node_tables[node_patient] :
          r.node_id = sp3 /\ r.created <= at_start.clock
    /\ Cardinality(node_tables[node_patient]) = 3

\* a list of names without the names that begin with "_" and without
\* Program and Project, the others in their order
RECURSIVE ProcessingSequence(_)
ProcessingSequence(names) ==
    IF names = <<>> THEN <<>>
    ELSE LET c == Head(names)
             dropped == \/ (c # <<>> /\ c[1] = "_")
                        \/ c = <<"P","r","o","g","r","a","m">>
                        \/ c = <<"P","r","o","j","e","c","t">>
         IN (IF dropped THEN <<>> ELSE <<c>>) \o ProcessingSequence(Tail(names))

\* C17: while load_vertices and while load_edges run, the sequence of types
\* they go through is the configured dependency_order without the names
\* that begin with "_" and without Program and Project, in the configured
\* order, and the type either loader looks at next is a type of that
\* sequence.
C17_ProcessingSequence ==
    pc \in {"load_vertices", "load_edges"} =>
        /\ dependency_order = ProcessingSequence(inv.config_order)
        /\ entity_index \in 1..(Len(dependency_order) + 1)
        /\ entity_index <= Len(dependency_order) =>
              NextEntity = ProcessingSequence(inv.config_order)[entity_index]

\* load_edges goes through a sequence from which a name that begins with
\* "_", Program and Project were removed
C17_Witness ==
    /\ pc = "load_edges" /\ inv = Study
    /\ Len(inv.config_order) = 8 /\ Len(dependency_order) = 5
    /\ entity_index = 3

\* the number of lines in a sequence of batches
RECURSIVE LinesIn(_)
LinesIn(bs) == IF bs = <<>> THEN 0 ELSE Len(Head(bs)) + LinesIn(Tail(bs))

\* the invocation was ended by a database error in a batch of load_vertices:
\* the batch is the first of the batches left
FailedInVertexBatch ==
    /\ pc = "failed" /\ error = "database error"
    /\ batches # <<>> /\ buffers = <<>>

\* a row of the table with the id of the record, written by this invocation
WrittenNow(t, d_) ==
    \E r \in node_tables[t] :
        /\ r.node_id = d_.id
        /\ r.created > at_start.clock
        /\ r.props = InjectProjectId(d_.object, project_id)

\* C18: when a database error ends the invocation in the k-th batch of a
\* vertex file, the rows of the batches 1..k-1 of the file and of the files
\* of the types before it are in the store, written by this invocation; no
\* record of batch k, of a later batch or of a later type was written by
\* it; no edge table was touched; and the store stays as the failure left
\* it.
C18_VertexBatchFailure ==
    FailedInVertexBatch =>
        LET lines == FileOf(OpenEntity).lines
            committed == Len(lines) - LinesIn(batches)
        IN /\ \A i \in 1..committed : WrittenNow(data_table_name, lines[i])
           /\ \A i \in (committed + 1)..Len(lines) :
                 ~WrittenNow(data_table_name, lines[i])
           /\ \A n \in 1..Len(dependency_order) :
                 LET T == dependency_order[n]
                 IN (T \in LoadedTypes /\ n # entity_index - 1) =>
                       \A i \in 1..Len(FileOf(T).lines) :
                          \A t \in DataTableNames(mappings, T) :
                             (n < entity_index - 1)
                                 <=> WrittenNow(t, FileOf(T).lines[i])
           /\ edge_tables = at_start.edge_tables
           /\ node_tables = run_results[Len(run_results)].node_tables
           /\ edge_tables = run_results[Len(run_results)].edge_tables

\* a database error has ended a load in the second batch of the patients,
\* after the first batch and the research studies were committed
C18_Witness ==
    /\ FailedInVertexBatch /\ inv = Study /\ faults = 1
    /\ OpenEntity = sPatient
    /\ Len(FileOf(sPatient).lines) - LinesIn(batches) = VertexBatchLines
    /\ \E r \in node_tables[node_patient] : r.node_id = sp1
    /\ \E r \in node_tables[node_researchstudy] : r.node_id = srs1

\* the invocation was ended by a database error in the merge of a buffer of
\* load_edges: the buffer is the first of the buffers left
FailedInEdgeBatch ==
    /\ pc = "failed" /\ error = "database error" /\ buffers # <<>>

\* C19: when a database error ends the invocation in an input batch of
\* load_edges, no edge table holds a row of that batch: the rows of one
\* input batch are committed together or not at all.
C19_EdgeBatchCommittedTogether ==
    FailedInEdgeBatch =>
        \A t \in DOMAIN edge_tables :
            \A e \in edge_tables[t] : e.created # clock

\* the lines of a sequence of batches, one after the other
RECURSIVE Flatten(_)
Flatten(bs) == IF bs = <<>> THEN <<>> ELSE Head(bs) \o Flatten(Tail(bs))

\* the batches are consecutive runs of the lines, none empty, none longer
\* than size, none but the last shorter
BatchesOf(bs, lines, size) ==
    /\ Flatten(bs) = lines
    /\ \A i \in 1..Len(bs) :
          /\ Len(bs[i]) >= 1 /\ Len(bs[i]) <= size
          /\ i < Len(bs) => Len(bs[i]) = size

\* C20: in every step of a loader, the position in the dependency order
\* stays or moves to the next type; a file that is opened is cut into
\* consecutive batches that hold every line once, of the batch size of the
\* loader (VertexBatchLines for load_vertices, EdgeBatchLines for
\* load_edges), only the last one shorter; and the batches are taken from
\* the front, the rows written or staged being those of the first batch
\* left.
C20_OrderOfTypesAndBatches ==
    [][(pc \in {"load_vertices", "load_edges"} /\ pc' = pc) =>
          /\ entity_index' \in {entity_index, entity_index + 1}
          /\ (batches = <<>> /\ batches' # <<>>) =>
                /\ entity_index' = entity_index + 1
                /\ BatchesOf(batches', FileOf(NextEntity).lines,
                             IF pc = "load_vertices" THEN VertexBatchLines
                             ELSE EdgeBatchLines)
          /\ (batches # <<>> /\ batches' # batches) =>
                /\ batches' = Tail(batches)
                /\ entity_index' = entity_index
                /\ pc = "load_vertices" =>
                      \A i \in 1..Len(Head(batches)) :
                          \E r \in node_tables'[data_table_name] :
                              /\ r.node_id = Head(batches)[i].id
                              /\ r.created = clock'
                /\ pc = "load_edges" =>
                      \A i \in 1..Len(buffers') :
                          \A j \in 1..Len(buffers'[i].rows) :
                              \E k \in 1..Len(Head(batches)) :
                                  buffers'[i].rows[j].src_id = Head(batches)[k].id
          /\ batches' # batches => (batches = <<>> \/ batches' = Tail(batches))
      ]_vars

\* load_vertices has cut a file into a full batch and a shorter last one
C20_Witness ==
    /\ pc = "load_vertices" /\ inv = Study
    /\ Len(batches) = 2
    /\ Len(batches[1]) = VertexBatchLines
    /\ Len(batches[2]) < VertexBatchLines
    /\ OpenEntity = sPatient

\* the records of the files of the invocation
InputRecords ==
    UNION {Range(inv.glob[i].lines) : i \in 1..Len(inv.glob)}

\* C21: every row of every vertex table has the node_id of a record of the
\* input, and props that are the object of that record with project_id set
\* to "<program>-<project>", whatever project_id the object held; its acl and
\* its sysan are empty.
C21_VertexRowContent ==
    \A t \in DOMAIN node_tables : \A r \in node_tables[t] :
        /\ r.acl = <<>> /\ r.sysan = <<>>
        /\ r.props.project_id = inv.program \o <<"-">> \o inv.project
        /\ \E d_ \in InputRecords :
              /\ r.node_id = d_.id
              /\ DOMAIN r.props = DOMAIN d_.object \cup {"project_id"}
              /\ \A k \in DOMAIN d_.object \ {"project_id"} :
                    r.props[k] = d_.object[k]

\* load_vertices has written the row of a record whose object came with a
\* project_id of its own
C21_Witness ==
    /\ inv = Study
    /\ \E d_ \in InputRecords :
          /\ "project_id" \in DOMAIN d_.object
          /\ d_.object.project_id # inv.program \o <<"-">> \o inv.project
          /\ \E r \in node_tables[node_patient] :
                r.node_id = d_.id /\ r.props.name = d_.object.name

\* the file is named type.ndjson: its path ends with "/" type ".ndjson"
NamedAfter(fn, T) == EndsWith(fn.path, <<"/">> \o T \o sNdjson)

\* C22: for each type T of the dependency order the loaders read the file
\* whose name is exactly T.ndjson: every row of a vertex table is the row of
\* a record of the file named after a type of that table, and every row of
\* an edge table has as src_id the id of a record of the file named after
\* the source type of that table.
C22_FileNamedExactly ==
    LET order == FilterDependencyOrder(inv.config_order)
    IN /\ \A t \in DOMAIN node_tables : \A r \in node_tables[t] :
             \E T \in Range(order) : \E i \in 1..Len(inv.glob) :
                /\ NamedAfter(inv.glob[i], T)
                /\ t \in DataTableNames(inv.dictionary, T)
                /\ \E d_ \in Range(inv.glob[i].lines) : d_.id = r.node_id
       /\ \A t \in DOMAIN edge_tables : \A e \in edge_tables[t] :
             \E T \in Range(order) : \E i \in 1..Len(inv.glob) :
                /\ NamedAfter(inv.glob[i], T)
                /\ \E j \in 1..Len(inv.dictionary) :
                      /\ inv.dictionary[j].tablename = t
                      /\ inv.dictionary[j].srcclass = T
                /\ \E d_ \in Range(inv.glob[i].lines) : d_.id = e.src_id

\* the relations of a record that load_edges uses: for each destination id
\* the last relation to it, and the link to the project for a ResearchStudy
KeptRelations(d_) ==
    {LastTo(d_.relations, dst) :
        dst \in {d_.relations[k].dst_id : k \in 1..Len(d_.relations)}}
    \cup (IF d_.name \in {sResearchStudy, sresearch_study}
          THEN {[dst_id |-> project_node_id, dst_name |-> sProject,
                 label |-> sproject]}
          ELSE {})

\* the positions of the mapping entries for a pair of types, the
\* destination type camelized
EntriesFor(T, dst_name) ==
    {j \in 1..Len(mappings) :
        /\ mappings[j].srcclass = T
        /\ mappings[j].dstclass = camelize(dst_name)}

\* C23: after a complete load, every relation that load_edges uses and whose
\* pair of types (type of the file, camelized destination type) has a
\* mapping entry is one row (src_id = record id, dst_id = relation dst_id)
\* in the table of the first such entry, and in no other edge table; the
\* table is determined by the pair of types alone, whatever the label.
C23_RelationToOneEdgeTable ==
    pc = "done" =>
        \A T \in EdgeTypes : \A d_ \in Range(FileOf(T).lines) :
            \A rel \in KeptRelations(d_) :
                LET at == EntriesFor(T, rel.dst_name)
                IN at # {} =>
                     LET first == CHOOSE j \in at : \A k \in at : j <= k
                         table_name == mappings[first].tablename
                     IN /\ Cardinality({e \in edge_tables[table_name] :
                               e.src_id = d_.id /\ e.dst_id = rel.dst_id}) = 1
                        /\ RowsElsewhere(table_name, d_.id, rel.dst_id) = {}

\* a load has completed in which one batch of Observation lines wrote to two
\* edge tables, a destination type spelled in lower case was resolved, and
\* two relations of one pair of types with different labels are rows of one
\* table
C23_Witness ==
    /\ pc = "done" /\ inv = Study
    /\ \E a, b \in Range(FileOf(sObservation).lines) :
          \E ra \in KeptRelations(a), rb \in KeptRelations(b) :
             /\ ra.label # rb.label
             /\ ra.dst_name = sspecimen /\ rb.dst_name = sSpecimen
             /\ \E e \in edge_tables[edge_observation_specimen] :
                   e.src_id = a.id /\ e.dst_id = ra.dst_id
             /\ \E e \in edge_tables[edge_observation_specimen] :
                   e.src_id = b.id /\ e.dst_id = rb.dst_id
    /\ \E e \in edge_tables[edge_observation_patient] :
          e.src_id = so1 /\ e.created \in
              {x.created : x \in edge_tables[edge_observation_specimen]}

(***************************************************************************)
(* load_vertices, lines 109-130: the text of a staged batch. A record is   *)
(* written as one tab-delimited line, the buffer is read by copy_from      *)
(* under the text format of COPY, and the _props column is cast to jsonb.  *)
(* Here the object of a record is a Python dict of strings: a sequence of  *)
(* items in insertion order.                                               *)
(***************************************************************************)
\* length of the property values of the staged records
MaxValueLen == 2

\* the characters of the property values: plain ones, and those the
\* encodings treat specially
Alphabet == {"a", "n", "\\", "\n", "\t", "\""}

\* str.replace(old, new) for an old of one character
RECURSIVE Replace(_, _, _)
Replace(s, old, new) ==
    IF s = <<>> THEN <<>>
    ELSE (IF Head(s) = old THEN new ELSE <<Head(s)>>)
         \o Replace(Tail(s), old, new)

\* json.dumps of one character of a str
JsonEscape(c) ==
    CASE c = "\"" -> <<"\\", "\"">>
      [] c = "\\" -> <<"\\", "\\">>
      [] c = "\n" -> <<"\\", "n">>
      [] c = "\t" -> <<"\\", "t">>
      [] OTHER -> <<c>>

RECURSIVE JsonEscapeAll(_)
JsonEscapeAll(s) ==
    IF s = <<>> THEN <<>> ELSE JsonEscape(Head(s)) \o JsonEscapeAll(Tail(s))

\* json.dumps of a str
JsonString(s) == <<"\"">> \o JsonEscapeAll(s) \o <<"\"">>

RECURSIVE JsonItems(_)
JsonItems(object) ==
    IF object = <<>> THEN <<>>
    ELSE JsonString(Head(object).key) \o <<":", " ">>
         \o JsonString(Head(object).value)
         \o (IF Len(object) > 1 THEN <<",", " ">> ELSE <<>>)
         \o JsonItems(Tail(object))

\* json.dumps of a dict of str
json_dumps(object) == <<"{">> \o JsonItems(object) \o <<"}">>

\* dict[key] = value: in place when the key is there, at the end when not
SetItem(object, key, value) ==
    IF \E i \in 1..Len(object) : object[i].key = key
    THEN [i \in 1..Len(object) |->
             IF object[i].key = key THEN [key |-> key, value |-> value]
             ELSE object[i]]
    ELSE Append(object, [key |-> key, value |-> value])

\* the first replace alone: the backslashes are not doubled
EscapeForCopy_newlines_only(s) == Replace(s, "\n", <<"\\", "n">>)

\* .replace('\n', '\\n').replace("\\", "\\\\"), lines 115-116
EscapeForCopy(s) ==
    Replace(Replace(s, "\n", <<"\\", "n">>), "\\", <<"\\", "\\">>)

\* _csv of one record, lines 112-117
StageVertexLine(d_, project_id_, now) ==
    EscapeForCopy(d_.id \o <<"\t">>
                  \o json_dumps(SetItem(d_.object, <<"project_id">>, project_id_))
                  \o <<"\t", "{", "}", "\t", "{", "}", "\t">> \o now)
    \o <<"\n">>

\* buf after the lines of a batch were written, lines 109-119
RECURSIVE StageVertexText(_, _, _)
StageVertexText(lines, project_id_, now) ==
    IF lines = <<>> THEN <<>>
    ELSE StageVertexLine(Head(lines), project_id_, now)
         \o StageVertexText(Tail(lines), project_id_, now)

\* the character a backslash sequence of the COPY text format stands for
CopyUnescape(c) ==
    CASE c = "n" -> "\n"
      [] c = "t" -> "\t"
      [] c = "r" -> "\r"
      [] c = "f" -> "\f"
      [] c = "b" -> "<backspace>"
      [] c = "v" -> "<vertical tab>"
      [] OTHER -> c

\* the number of backslashes right before position i
BackslashRun(buf, i) ==
    LET stop == {j \in 0..(i - 1) : j = 0 \/ buf[j] # "\\"}
        last == CHOOSE j \in stop : \A k \in stop : k <= j
    IN i - 1 - last

\* the newlines that end a row under the COPY text format: those that no
\* backslash escapes
RowEnds(buf) ==
    {i \in 1..Len(buf) : buf[i] = "\n" /\ BackslashRun(buf, i) % 2 = 0}

\* the columns of one row under the COPY text format with sep='\t': a tab
\* ends a column unless a backslash precedes it; a backslash and the
\* character after it stand for one character
RECURSIVE CopyFields(_, _, _, _)
CopyFields(line, i, field, row) ==
    IF i > Len(line) THEN Append(row, field)
    ELSE IF line[i] = "\\" /\ i < Len(line)
    THEN CopyFields(line, i + 2, Append(field, CopyUnescape(line[i + 1])), row)
    ELSE IF line[i] = "\t"
    THEN CopyFields(line, i + 1, <<>>, Append(row, field))
    ELSE CopyFields(line, i + 1, Append(field, line[i]), row)

\* cursor.copy_from(buf, ..., sep='\t'), line 121: the rows of the buffer,
\* each cut at the newline that ends it, and what follows the last such
\* newline, if anything, as one more row
copy_from(buf) ==
    LET ends == RowEnds(buf)
        nth(k) == CHOOSE e \in ends : Cardinality({x \in ends : x <= e}) = k
        start(k) == IF k = 1 THEN 1 ELSE nth(k - 1) + 1
        last == IF ends = {} THEN 0 ELSE nth(Cardinality(ends))
        whole == [k \in 1..Cardinality(ends) |->
                     CopyFields(SubSeq(buf, start(k), nth(k) - 1), 1, <<>>, <<>>)]
    IN IF last = Len(buf) THEN whole
       ELSE Append(whole, CopyFields(SubSeq(buf, last + 1, Len(buf)), 1, <<>>, <<>>))

\* columns = ['node_id', '_props', 'acl', '_sysan', 'created'], line 91: a
\* row of another number of columns makes COPY raise
CopyRaises(rows) == \E i \in 1..Len(rows) : Len(rows[i]) # 5

\* the character a backslash sequence of a JSON string stands for
JsonUnescape(c) ==
    CASE c = "n" -> "\n"
      [] c = "t" -> "\t"
      [] c = "r" -> "\r"
      [] c = "f" -> "\f"
      [] c = "b" -> "<backspace>"
      [] OTHER -> c

\* _props::jsonb, line 127, for an object of strings: the strings of the
\* text in order, or an error for a control character inside a string, an
\* unknown backslash sequence, an unterminated string or text that is
\* neither a string nor punctuation
RECURSIVE JsonScan(_, _, _, _, _)
JsonScan(t, i, in_string, cur, strings) ==
    IF i > Len(t)
    THEN [ok |-> ~in_string, strings |-> strings]
    ELSE IF in_string
    THEN IF t[i] = "\""
         THEN JsonScan(t, i + 1, FALSE, <<>>, Append(strings, cur))
         ELSE IF t[i] = "\\"
         THEN IF i < Len(t) /\ t[i + 1] \in {"\"", "\\", "/", "b", "f", "n", "r", "t"}
              THEN JsonScan(t, i + 2, TRUE, Append(cur, JsonUnescape(t[i + 1])),
                            strings)
              ELSE [ok |-> FALSE, strings |-> strings]
         ELSE IF t[i] \in {"\n", "\t", "\r", "\f"}
         THEN [ok |-> FALSE, strings |-> strings]
         ELSE JsonScan(t, i + 1, TRUE, Append(cur, t[i]), strings)
    ELSE IF t[i] = "\""
    THEN JsonScan(t, i + 1, TRUE, <<>>, strings)
    ELSE IF t[i] \in {"{", "}", ":", ",", " ", "\n", "\t", "\r"}
    THEN JsonScan(t, i + 1, FALSE, <<>>, strings)
    ELSE [ok |-> FALSE, strings |-> strings]

\* the object a jsonb text holds: its strings taken as keys and values
jsonb(t) ==
    LET scan == JsonScan(t, 1, FALSE, <<>>, <<>>)
    IN IF ~scan.ok \/ Len(scan.strings) % 2 # 0
       THEN [ok |-> FALSE, object |-> <<>>]
       ELSE [ok |-> TRUE,
             object |-> [k \in 1..(Len(scan.strings) \div 2) |->
                            [key |-> scan.strings[2 * k - 1],
                             value |-> scan.strings[2 * k]]]]

\* the property values of the staged records
Values == UNION {[1..n -> Alphabet] : n \in 0..MaxValueLen}

\* the batches staged: two records, the first with one property of any
\* value, the second with a project_id of its own and a property of a
\* value that holds one special character
StagedBatches ==
    {<< [id |-> sp1, object |-> <<[key |-> <<"note">>, value |-> v]>>],
        [id |-> sp2, object |-> <<[key |-> <<"project_id">>, value |-> sBob],
                                  [key |-> <<"note">>, value |-> w]>>] >> :
        v \in Values, w \in {<<"a">>, <<"\\">>, <<"\n">>, <<"\t">>}}

\* str(datetime.now())
sNow == <<"1","2",":","0","0">>

\* the loaders are idle, the store is empty
LoaderIdle ==
    /\ inv = EndToEnd
    /\ node_program = <<>> /\ node_project = <<>>
    /\ edge_projectmemberofprogram = {}
    /\ node_tables = [t \in NodeTableNames(inv.dictionary) |-> {}]
    /\ edge_tables = [t \in EdgeTableNames(inv.dictionary) |-> {}]
    /\ LOGGED_ALREADY = <<>>
    /\ pc = "idle"
    /\ error = "none"
    /\ dependency_order = <<>>
    /\ project_node_id = None
    /\ project_id = None
    /\ files = <<>>
    /\ mappings = <<>>
    /\ entity_index = 1
    /\ data_table_name = None
    /\ batches = <<>>
    /\ buffers = <<>>
    /\ log = <<>>
    /\ clock = 0
    /\ runs = 0
    /\ ensure_calls = 0
    /\ ensure_count = 0
    /\ last_ensure = NoEnsure
    /\ resolved = [pq \in ProgramNames \X ProjectNames |-> Unresolved]
    /\ db_work = FALSE
    /\ run_results = <<>>
    /\ faults = 0
    /\ conn = <<>>
    /\ ensure = NoCall
    /\ previous_run = NoRun
    /\ removal = NoRemoval
    /\ at_start = CurrentStore

\* everything but staged
StagingUnchanged ==
    UNCHANGED <<inv, previous_run, ensure, removal, upload, variant, faults, conn, node_program, node_project,
                edge_projectmemberofprogram, node_tables, edge_tables,
                LOGGED_ALREADY, pc, error, dependency_order, project_node_id,
                project_id, files, mappings, entity_index, data_table_name,
                batches, buffers, log, clock, runs, ensure_calls, ensure_count,
                last_ensure, resolved, db_work, at_start, run_results>>

\* a chunk of lines was read, line 100
InitStaging ==
    /\ LoaderIdle
    /\ upload = <<>>
    /\ variant = <<>>
    /\ \E lines \in StagedBatches :
          staged = [phase |-> "read", lines |-> lines,
                    project_id |-> ProjectIdOf(<<"P">>, <<"p">>),
                    buf |-> <<>>, rows |-> <<>>, merged |-> <<>>]

\* lines 109-119: the lines of the chunk are written to buf
StageVertexBuffer ==
    /\ staged.phase = "read"
    /\ staged' = [staged EXCEPT
           !.phase = "staged",
           !.buf = StageVertexText(staged.lines, staged.project_id, sNow)]
    /\ StagingUnchanged

\* lines 121-122: copy_from reads buf into the temporary table
CopyFromBuffer ==
    /\ staged.phase = "staged"
    /\ LET rows == copy_from(staged.buf)
       IN staged' = [staged EXCEPT
              !.phase = IF CopyRaises(rows) THEN "failed" ELSE "copied",
              !.rows = rows]
    /\ StagingUnchanged

\* lines 124-130: the rows are selected with _props cast to jsonb
InsertSelect ==
    /\ staged.phase = "copied"
    /\ LET cast == [i \in 1..Len(staged.rows) |-> jsonb(staged.rows[i][2])]
       IN staged' = [staged EXCEPT
              !.phase = IF \E i \in 1..Len(cast) : ~cast[i].ok
                        THEN "failed" ELSE "merged",
              !.merged = [i \in 1..Len(cast) |->
                             [node_id |-> staged.rows[i][1],
                              props |-> cast[i].object,
                              acl |-> staged.rows[i][3],
                              sysan |-> staged.rows[i][4],
                              created |-> staged.rows[i][5]]]]
    /\ StagingUnchanged

NextStaging ==
    \/ StageVertexBuffer
    \/ CopyFromBuffer
    \/ InsertSelect

SpecStaging == InitStaging /\ [][NextStaging]_vars

\* C24: the staged text of a batch round-trips: copy_from reads as many rows
\* as the batch has records, each of five columns, and raises nothing; the
\* cast to jsonb raises nothing; and the row of each record holds the id of
\* the record and props equal to its object with project_id set, whatever
\* newlines, backslashes, tabs and quotes its property values hold.
C24_StagingRoundTrip ==
    /\ staged.phase # "failed"
    /\ staged.phase \in {"copied", "merged"} =>
          /\ Len(staged.rows) = Len(staged.lines)
          /\ \A i \in 1..Len(staged.rows) :
                /\ Len(staged.rows[i]) = 5
                /\ staged.rows[i][1] = staged.lines[i].id
                /\ staged.rows[i][3] = <<"{", "}">>
                /\ staged.rows[i][4] = <<"{", "}">>
                /\ staged.rows[i][5] = sNow
    /\ staged.phase = "merged" =>
          \A i \in 1..Len(staged.merged) :
             /\ staged.merged[i].node_id = staged.lines[i].id
             /\ staged.merged[i].props =
                   [k \in 1..Len(staged.lines[i].object) + 
                          (IF \E j \in 1..Len(staged.lines[i].object) :
                                 staged.lines[i].object[j].key = <<"project_id">>
                           THEN 0 ELSE 1) |->
                       IF k > Len(staged.lines[i].object)
                          \/ staged.lines[i].object[k].key = <<"project_id">>
                       THEN [key |-> <<"project_id">>, value |-> staged.project_id]
                       ELSE staged.lines[i].object[k]]

\* a batch was merged whose first record holds a backslash followed by the
\* letter n and whose second record holds a newline
C24_Witness ==
    /\ staged.phase = "merged"
    /\ staged.lines[1].object[1].value = <<"\\", "n">>
    /\ staged.lines[2].object[2].value = <<"\n">>
    /\ staged.merged[1].props[1].value = <<"\\", "n">>

\* C25: while meta_upload loads, its project_node_id, which load_edges
\* links every ResearchStudy to, is the id ensure_project resolved for the
\* program and project of the invocation.
C25_ProjectNodeIdResolved ==
    pc \in {"glob", "mappings", "load_vertices", "load_edges"} =>
        /\ last_ensure.program = inv.program
        /\ last_ensure.project = inv.project
        /\ project_node_id = last_ensure.project_node_id

\* the last line of an id
LastLineOf(lines, id) ==
    lines[CHOOSE i \in 1..Len(lines) :
        /\ lines[i].id = id
        /\ \A j \in (i + 1)..Len(lines) : lines[j].id # id]

\* C26: a load whose vertex files repeat an id raises no database error,
\* and when it is complete the one row of a repeated id holds the props of
\* the last line of that id.
C26_RepeatedIdLastWins ==
    \A T \in LoadedTypes :
        RepeatsAnId(FileOf(T).lines) =>
            /\ error # "database error"
            /\ pc = "done" =>
                  \A d_ \in Range(FileOf(T).lines) :
                     \A t \in DataTableNames(mappings, T) :
                        \A r \in node_tables[t] :
                           r.node_id = d_.id =>
                              \A k \in DOMAIN d_.object :
                                 r.props[k] = LastLineOf(FileOf(T).lines, d_.id).object[k]

\* the store was empty and only ensure_project has been called since
OnlyBootstrappedFromEmpty ==
    /\ runs = 0
    /\ at_start.node_program = <<>> /\ at_start.node_project = <<>>
    /\ at_start.edge_projectmemberofprogram = {}

\* C27: after any sequence of ensure_project calls on an empty store, every
\* row of node_project is linked by edge_projectmemberofprogram to exactly
\* one program, so that the projects of two programs are two rows.
C27_OneProgramPerProjectRow ==
    OnlyBootstrappedFromEmpty =>
        \A i \in 1..Len(node_project) :
            Cardinality({e \in edge_projectmemberofprogram :
                            e.src_id = node_project[i].node_id}) = 1

\* the mapping entry of an edge table
EntryOf(table_name) ==
    mappings[CHOOSE j \in 1..Len(mappings) :
        /\ mappings[j].tablename = table_name
        /\ \A k \in 1..(j - 1) : mappings[k].tablename # table_name]

\* the vertex table of the source type holds a row of the src_id of the edge
SrcPresent(e, m) == \E r \in node_tables[m.srctable] : r.node_id = e.src_id

\* the vertex table of the destination type, or node_project for an edge to
\* the project, holds a row of the dst_id of the edge
DstPresent(e, m) ==
    IF m.dsttable = node_project_table
    THEN \E i \in 1..Len(node_project) : node_project[i].node_id = e.dst_id
    ELSE \E r \in node_tables[m.dsttable] : r.node_id = e.dst_id

\* the files load_vertices loaded hold a record of the destination type
\* with the dst_id of the edge
DstInInput(e, m) ==
    \E T \in LoadedTypes :
        /\ m.dsttable \in DataTableNames(mappings, T)
        /\ \E d_ \in Range(FileOf(T).lines) : d_.id = e.dst_id

\* C28 as stated: after a complete load on an empty store every edge row has
\* both endpoints present: its src_id in the vertex table of the source
\* type, its dst_id in the vertex table of the destination type or in
\* node_project.
C28_EndpointsPresent ==
    (StartedEmpty /\ pc = "done") =>
        \A t \in DOMAIN edge_tables : \A e \in edge_tables[t] :
            SrcPresent(e, EntryOf(t)) /\ DstPresent(e, EntryOf(t))

\* C28: after a complete load on an empty store every edge row has its
\* src_id in the vertex table of the source type; its dst_id is in the
\* vertex table of the destination type exactly when the loaded file of
\* that type holds a record of that id, and always for the edge to the
\* project. A relation to an id the input does not hold is written all the
\* same: nothing checks the destination.
C28_EndpointsPresentWhenLoaded ==
    (StartedEmpty /\ pc = "done") =>
        \A t \in DOMAIN edge_tables : \A e \in edge_tables[t] :
            LET m == EntryOf(t)
            IN /\ SrcPresent(e, m)
               /\ DstPresent(e, m)
                     <=> (m.dsttable = node_project_table \/ DstInInput(e, m))

\* a load on an empty store has completed with an edge whose two endpoints
\* are rows, an edge to the project, and an edge to a Specimen that no file
\* holds
C28_Witness ==
    /\ StartedEmpty /\ pc = "done" /\ inv = Study
    /\ \E e \in edge_tables[edge_observation_patient] :
          /\ SrcPresent(e, EntryOf(edge_observation_patient))
          /\ DstPresent(e, EntryOf(edge_observation_patient))
    /\ \E e \in edge_tables[edge_researchstudy_project] :
          DstPresent(e, EntryOf(edge_researchstudy_project))
    /\ \E e \in edge_tables[edge_observation_specimen] :
          /\ e.dst_id = ss1
          /\ ~DstPresent(e, EntryOf(edge_observation_specimen))

(***************************************************************************)
(* src/aced_submission/meta_uploader.py: meta_upload, lines 179-230,       *)
(* load_vertices, lines 71-111, and load_edges, lines 114-176, run step by *)
(* step after the load of meta_graph_load.py, over the same source         *)
(* directory, on a database that holds what that load started from or what *)
(* it left. The variable variant holds that database, the locals of the    *)
(* functions under their names, and LOGGED_ALREADY of meta_uploader.py.    *)
(***************************************************************************)
\* number of relations of the Observation record of the compared loads
MaxRelations == 2

\* str(p) of a row p = {'node_id': ..., '_props': {...}} of node_program
ReprOfProgram(p) ==
    <<"{'node_id': '">> \o p.node_id \o <<"', '_props': {'name': '">>
    \o p.props.name \o <<"', 'type': '">> \o p.props.type
    \o <<"', 'dbgap_accession_number': '">> \o p.props.dbgap_accession_number
    \o <<"'}}">>

\* 'http' in dictionary_path
ContainsHttp(s) ==
    \E i \in 1..Len(s) : StartsWith(SubSeq(s, i, Len(s)), <<"h", "t", "t", "p">>)

\* meta_uploader.meta_upload, lines 181-222: what it raises, or the
\* arguments it passes to load_vertices and load_edges; program is rebound
\* to the row of node_program at line 202 and formatted into project_id at
\* line 210
UploaderMetaUploadArguments(inv_, programs, projects) ==
    LET found == ProgramsNamed(programs, inv_.program)
        coded == ProjectsWithCode(projects, inv_.project)
        m == TableMappings(inv_)
        none == [project_id |-> None, project_node_id |-> None,
                 files |-> <<>>, mappings |-> <<>>]
    IN IF ~inv_.source_is_dir
       THEN [raised |-> "source_path should be a directory"] @@ none
       ELSE IF ~inv_.config_is_file
       THEN [raised |-> "config_path should be a file"] @@ none
       ELSE IF found = <<>>
       THEN [raised |-> "None not found in node_program table"] @@ none
       ELSE IF coded = <<>>
       THEN [raised |-> "project not found in node_project"] @@ none
       ELSE IF Len(inv_.glob) = 0
       THEN [raised |-> "No files found"] @@ none
       ELSE IF ContainsHttp(inv_.dictionary_path)
       THEN [raised |-> "TypeError"] @@ none
       ELSE IF m.raised # "none"
       THEN [raised |-> m.raised] @@ none
       ELSE [raised |-> "none",
             project_id |-> ReprOfProgram(Head(found)) \o sDash \o inv_.project,
             project_node_id |-> Head(coded).node_id,
             files |-> inv_.glob,
             mappings |-> m.mapping]

\* cursor.copy_from(buf, <table>, ...) straight into a table with a primary
\* key raises when a key comes twice in the buffer or is in the table
UploaderVertexCopyRaises(table, rows) ==
    \/ \E i, j \in 1..Len(rows) : i # j /\ rows[i].node_id = rows[j].node_id
    \/ \E i \in 1..Len(rows) : \E r \in table : r.node_id = rows[i].node_id

\* meta_uploader.load_edges, lines 132-135: the relations of a record, with
\* the link to the project for a record named ResearchStudy
UploaderRelationsOf(d_, project_node_id_) ==
    IF d_.name = sResearchStudy
    THEN Append(d_.relations,
                [dst_id |-> project_node_id_, dst_name |-> sProject,
                 label |-> sproject])
    ELSE d_.relations

\* [m for m in mapping if m['srcclass'] == entity_name and m['dstclass'] == relation['dst_name']]
UploaderEdgeTableMappings(mapping, entity_name, dst_name) ==
    SelectSeq(mapping, LAMBDA m :
        m.srcclass = entity_name /\ m.dstclass = dst_name)

\* meta_uploader.load_edges, lines 142-169: one relation of one record
UploaderStageRelation(acc, entity_name, d_, relation, mapping, order, now) ==
    LET edge_table_mapping ==
            UploaderEdgeTableMappings(mapping, entity_name, relation.dst_name)
    IN IF edge_table_mapping = <<>> /\ relation.dst_name \in Range(order)
       THEN LogOnce(acc, "warning", NoMappingMsg(entity_name, relation.dst_name))
       ELSE IF edge_table_mapping = <<>>
       THEN acc
       ELSE [acc EXCEPT !.buffers =
                WriteBuffer(@, Head(edge_table_mapping).tablename,
                    [src_id |-> d_.id, dst_id |-> relation.dst_id,
                     acl |-> <<>>, sysan |-> <<>>, props |-> <<>>,
                     created |-> now])]

\* meta_uploader.load_edges, lines 141-169: the relations of one record
RECURSIVE UploaderStageRelations(_, _, _, _, _, _, _)
UploaderStageRelations(acc, entity_name, d_, relations, mapping, order, now) ==
    IF relations = <<>> THEN acc
    ELSE UploaderStageRelations(
             UploaderStageRelation(acc, entity_name, d_, Head(relations),
                                   mapping, order, now),
             entity_name, d_, Tail(relations), mapping, order, now)

\* meta_uploader.load_edges, lines 129-169: the buffers of one batch
RECURSIVE UploaderStageBatch(_, _, _, _, _, _, _)
UploaderStageBatch(acc, entity_name, lines, mapping, order, project_node_id_, now) ==
    IF lines = <<>> THEN acc
    ELSE UploaderStageBatch(
             UploaderStageRelations(acc, entity_name, Head(lines),
                 UploaderRelationsOf(Head(lines), project_node_id_),
                 mapping, order, now),
             entity_name, Tail(lines), mapping, order, project_node_id_, now)

\* copy_from straight into an edge table raises when a pair (src_id, dst_id)
\* comes twice in the buffer or is in the table
UploaderEdgeCopyRaises(table, rows) ==
    \/ \E i, j \in 1..Len(rows) :
          i # j /\ rows[i].src_id = rows[j].src_id /\ rows[i].dst_id = rows[j].dst_id
    \/ \E i \in 1..Len(rows) : \E e \in table :
          e.src_id = rows[i].src_id /\ e.dst_id = rows[i].dst_id

\* meta_uploader.load_edges, lines 170-175: the buffers of a batch are copied
\* into their tables, in the transaction of the file
RECURSIVE UploaderCopyBuffers(_, _)
UploaderCopyBuffers(tables, bufs) ==
    IF bufs = <<>> THEN [raised |-> FALSE, edge_tables |-> tables]
    ELSE IF UploaderEdgeCopyRaises(tables[Head(bufs).table_name], Head(bufs).rows)
    THEN [raised |-> TRUE, edge_tables |-> tables]
    ELSE UploaderCopyBuffers(
             [tables EXCEPT ![Head(bufs).table_name] = @ \cup Range(Head(bufs).rows)],
             Tail(bufs))

\* the relations the Observation record of the compared loads is made of
RelationChoices ==
    { Rel(sp1, sPatient, ssubject), Rel(sp1, sPatient, sperformer),
      Rel(ss1, sspecimen, sspecimen), Rel(ss1, sSpecimen, sspecimen),
      Rel(sx1, sSubstance, ssubject), Rel(sp2, sPatient, ssubject) }

\* the loads compared: the dependency order and the dictionary of the
\* Study, a ResearchStudy named in either spelling, a Patient, a Substance
\* and an Observation with up to MaxRelations relations
ComparedLoads ==
    { [Study EXCEPT !.glob =
          << NdjsonFile(sObservation,
                << Rec(so1, [value |-> s5], sObservation, rels) >>),
             NdjsonFile(sPatient,
                << Rec(sp1, [name |-> sAlice], sPatient,
                       <<Rel(srs1, sResearchStudy, sstudy)>>) >>),
             NdjsonFile(sResearchStudy,
                << Rec(srs1, [name |-> sAlice], rs_name, <<>>) >>),
             NdjsonFile(sSubstance,
                << Rec(sx1, [name |-> sBob], sSubstance, <<>>) >>) >>] :
        rels \in UNION {[1..n -> RelationChoices] : n \in 0..MaxRelations},
        rs_name \in {sResearchStudy, sresearch_study} }

\* meta_upload of meta_graph_load.py at line 288, about to call
\* load_vertices: ensure_project has created program and project on an
\* empty store, the files were listed and the mappings read
InitVariants ==
    /\ inv \in ComparedLoads
    /\ LET r == ensure_project_on(Store(<<>>, <<>>, {}), inv.program, inv.project)
       IN /\ node_program = r.node_program
          /\ node_project = r.node_project
          /\ edge_projectmemberofprogram = r.edge_projectmemberofprogram
          /\ project_node_id = r.project_node_id
          /\ last_ensure = [program |-> inv.program, project |-> inv.project,
                            project_node_id |-> r.project_node_id,
                            returned |-> r.returned, raised |-> r.raised,
                            again |-> None, before |-> Store(<<>>, <<>>, {}),
                            after |-> Store(r.node_program, r.node_project,
                                            r.edge_projectmemberofprogram)]
          /\ resolved = [pq \in ProgramNames \X ProjectNames |->
                            IF pq = <<inv.program, inv.project>>
                            THEN [project_node_id |-> r.project_node_id,
                                  how |-> "created"]
                            ELSE Unresolved]
    /\ node_tables = [t \in NodeTableNames(inv.dictionary) |-> {}]
    /\ edge_tables = [t \in EdgeTableNames(inv.dictionary) |-> {}]
    /\ LOGGED_ALREADY = <<>>
    /\ pc = "load_vertices"
    /\ error = "none"
    /\ dependency_order = FilterDependencyOrder(inv.config_order)
    /\ project_id = ProjectIdOf(inv.program, inv.project)
    /\ files = inv.glob
    /\ mappings = inv.dictionary
    /\ entity_index = 1
    /\ data_table_name = None
    /\ batches = <<>>
    /\ buffers = <<>>
    /\ log = <<>>
    /\ clock = 0
    /\ runs = 1
    /\ ensure_calls = 0
    /\ ensure_count = 1
    /\ db_work = TRUE
    /\ run_results = <<>>
    /\ faults = 0
    /\ conn = <<>>
    /\ staged = <<>>
    /\ upload = <<>>
    /\ variant = <<>>
    /\ ensure = NoCall
    /\ previous_run = NoRun
    /\ removal = NoRemoval
    /\ at_start = [node_program |-> <<>>, node_project |-> <<>>,
                   edge_projectmemberofprogram |-> {},
                   node_tables |-> node_tables, edge_tables |-> edge_tables,
                   clock |-> 0]

\* everything but variant
VariantUnchanged ==
    UNCHANGED <<inv, previous_run, ensure, removal, staged, upload, faults, conn, node_program,
                node_project, edge_projectmemberofprogram, node_tables,
                edge_tables, LOGGED_ALREADY, pc, error, dependency_order,
                project_node_id, project_id, files, mappings, entity_index,
                data_table_name, batches, buffers, log, clock, runs,
                ensure_calls, ensure_count, last_ensure, resolved, db_work,
                at_start, run_results>>

\* the functions of meta_uploader.py are called once the load has ended, on
\* a database as the load found it or on the database of the load, whose
\* tables variant.node_tables and variant.edge_tables are from here on
\* (node_tables and edge_tables stay what the load left): either
\* meta_upload, lines 179-226, or load_vertices and load_edges with the
\* arguments meta_graph_load.py passed to its own
UploaderStart ==
    /\ pc \in {"done", "failed"}
    /\ variant = <<>>
    /\ \E via \in {"meta_upload", "load_vertices"},
          st \in {[node_tables |-> at_start.node_tables,
                   edge_tables |-> at_start.edge_tables],
                  [node_tables |-> node_tables, edge_tables |-> edge_tables]} :
          LET a == IF via = "meta_upload"
                   THEN UploaderMetaUploadArguments(inv, node_program, node_project)
                   ELSE [raised |-> "none", project_id |-> project_id,
                         project_node_id |-> project_node_id,
                         files |-> files, mappings |-> mappings]
          IN variant' =
               [pc |-> IF a.raised = "none" THEN "load_vertices" ELSE "failed",
                error |-> a.raised,
                via |-> via,
                at_start |-> st,
                node_tables |-> st.node_tables,
                edge_tables |-> st.edge_tables,
                uncommitted |-> st.edge_tables,
                dependency_order |-> FilterDependencyOrder(inv.config_order),
                project_id |-> a.project_id,
                project_node_id |-> a.project_node_id,
                files |-> a.files,
                mappings |-> a.mappings,
                entity_index |-> 1,
                data_table_name |-> None,
                batches |-> <<>>,
                log |-> <<>>,
                LOGGED_ALREADY |-> <<>>,
                clock |-> 0]
    /\ VariantUnchanged

\* the type load_vertices or load_edges of meta_uploader.py looks at next
UploaderNextEntity == variant.dependency_order[variant.entity_index]

\* meta_uploader.load_vertices, lines 75-78: no file for the type
UploaderVerticesNoFile ==
    /\ variant # <<>>
    /\ variant.pc = "load_vertices" /\ variant.batches = <<>>
    /\ variant.entity_index <= Len(variant.dependency_order)
    /\ PathsFor(variant.files, UploaderNextEntity) = <<>>
    /\ variant' = [variant EXCEPT
           !.log = Append(@, [level |-> "warning",
                              msg |-> <<"No file found for ">> \o UploaderNextEntity
                                   \o <<" skipping">>]),
           !.entity_index = @ + 1]
    /\ VariantUnchanged

\* meta_uploader.load_vertices, lines 79-87: a file, but no vertex table
UploaderVerticesNoMapping ==
    /\ variant # <<>>
    /\ variant.pc = "load_vertices" /\ variant.batches = <<>>
    /\ variant.entity_index <= Len(variant.dependency_order)
    /\ PathsFor(variant.files, UploaderNextEntity) # <<>>
    /\ \E t \in DataTableNameChoices(variant.mappings, UploaderNextEntity) :
          /\ t \in {None, <<>>}
          /\ variant' = [variant EXCEPT
                 !.data_table_name = t,
                 !.log = Append(@, [level |-> "warning",
                            msg |-> <<"No mapping found for ">> \o UploaderNextEntity
                                   \o <<" skipping">>]),
                 !.entity_index = @ + 1]
    /\ VariantUnchanged

\* meta_uploader.load_vertices, lines 75-95: the file of the type is read
\* and cut into batches
UploaderVerticesOpen ==
    /\ variant # <<>>
    /\ variant.pc = "load_vertices" /\ variant.batches = <<>>
    /\ variant.entity_index <= Len(variant.dependency_order)
    /\ PathsFor(variant.files, UploaderNextEntity) # <<>>
    /\ \E t \in DataTableNameChoices(variant.mappings, UploaderNextEntity) :
          /\ t \notin {None, <<>>}
          /\ variant' = [variant EXCEPT
                 !.data_table_name = t,
                 !.batches = chunk(Head(PathsFor(variant.files,
                                                 UploaderNextEntity)).lines,
                                   VertexBatchLines),
                 !.entity_index = @ + 1]
    /\ VariantUnchanged

\* meta_uploader.load_vertices, lines 95-110: one batch is copied straight
\* into the table and committed; a copy that raises ends the call
UploaderVerticesBatch ==
    /\ variant # <<>>
    /\ variant.pc = "load_vertices" /\ variant.batches # <<>>
    /\ LET rows == StageVertexBatch(Head(variant.batches), variant.project_id,
                                    variant.clock + 1)
           table == variant.node_tables[variant.data_table_name]
       IN variant' =
            IF UploaderVertexCopyRaises(table, rows)
            THEN [variant EXCEPT !.pc = "failed", !.error = "database error",
                                 !.clock = @ + 1]
            ELSE [variant EXCEPT
                    !.node_tables[variant.data_table_name] = @ \cup Range(rows),
                    !.batches = Tail(@),
                    !.clock = @ + 1]
    /\ VariantUnchanged

\* load_vertices of meta_uploader.py returns, load_edges is next
UploaderVerticesReturn ==
    /\ variant # <<>>
    /\ variant.pc = "load_vertices" /\ variant.batches = <<>>
    /\ variant.entity_index > Len(variant.dependency_order)
    /\ variant' = [variant EXCEPT !.pc = "load_edges", !.entity_index = 1]
    /\ VariantUnchanged

\* meta_uploader.load_edges, lines 118-121: no file for the type
UploaderEdgesNoFile ==
    /\ variant # <<>>
    /\ variant.pc = "load_edges" /\ variant.batches = <<>>
    /\ variant.entity_index <= Len(variant.dependency_order)
    /\ PathsFor(variant.files, UploaderNextEntity) = <<>>
    /\ variant' = [variant EXCEPT
           !.log = Append(@, [level |-> "warning",
                              msg |-> <<"No file found for ">> \o UploaderNextEntity
                                   \o <<" skipping">>]),
           !.entity_index = @ + 1]
    /\ VariantUnchanged

\* meta_uploader.load_edges, lines 118-128: the path of the file of the
\* type is printed (line 124), the file is read and cut into batches
UploaderEdgesOpen ==
    /\ variant # <<>>
    /\ variant.pc = "load_edges" /\ variant.batches = <<>>
    /\ variant.entity_index <= Len(variant.dependency_order)
    /\ PathsFor(variant.files, UploaderNextEntity) # <<>>
    /\ variant' = [variant EXCEPT
           !.pc = "load_edges_file",
           !.log = Append(@, [level |-> "print",
                              msg |-> Head(PathsFor(variant.files,
                                                    UploaderNextEntity)).path]),
           !.batches = chunk(Head(PathsFor(variant.files,
                                           UploaderNextEntity)).lines,
                             EdgeBatchLines)]
    /\ VariantUnchanged

\* meta_uploader.load_edges, lines 128-175: the lines of one batch are
\* staged and each buffer is copied straight into its table, not yet
\* committed; a copy that raises ends the call and what the file has copied
\* is rolled back
UploaderEdgesBatch ==
    /\ variant # <<>>
    /\ variant.pc = "load_edges_file" /\ variant.batches # <<>>
    /\ LET acc == UploaderStageBatch(
                      [buffers |-> <<>>, logged |-> variant.LOGGED_ALREADY,
                       log |-> variant.log],
                      UploaderNextEntity, Head(variant.batches),
                      variant.mappings, variant.dependency_order,
                      variant.project_node_id, variant.clock + 1)
           r == UploaderCopyBuffers(variant.uncommitted, acc.buffers)
           staged_ == [variant EXCEPT !.LOGGED_ALREADY = acc.logged,
                                      !.log = acc.log,
                                      !.clock = @ + 1]
       IN variant' =
            IF r.raised
            THEN [staged_ EXCEPT !.pc = "failed", !.error = "database error",
                                 !.uncommitted = variant.edge_tables]
            ELSE [staged_ EXCEPT !.uncommitted = r.edge_tables,
                                 !.batches = Tail(@)]
    /\ VariantUnchanged

\* meta_uploader.load_edges, line 176: what the file has copied is committed
UploaderEdgesCommit ==
    /\ variant # <<>>
    /\ variant.pc = "load_edges_file" /\ variant.batches = <<>>
    /\ variant' = [variant EXCEPT !.pc = "load_edges",
                                  !.edge_tables = variant.uncommitted,
                                  !.entity_index = @ + 1]
    /\ VariantUnchanged

\* load_edges of meta_uploader.py returns
UploaderEdgesReturn ==
    /\ variant # <<>>
    /\ variant.pc = "load_edges"
    /\ variant.entity_index > Len(variant.dependency_order)
    /\ variant' = [variant EXCEPT !.pc = "done"]
    /\ VariantUnchanged

NextVariants ==
    \/ LoadVerticesNoFile
    \/ LoadVerticesNoMapping
    \/ LoadVerticesOpen
    \/ LoadVerticesBatch
    \/ LoadVerticesReturn
    \/ LoadEdgesNoFile
    \/ LoadEdgesOpen
    \/ LoadEdgesStage
    \/ LoadEdgesMerge
    \/ LoadEdgesReturn
    \/ UploaderStart
    \/ UploaderVerticesNoFile
    \/ UploaderVerticesNoMapping
    \/ UploaderVerticesOpen
    \/ UploaderVerticesBatch
    \/ UploaderVerticesReturn
    \/ UploaderEdgesNoFile
    \/ UploaderEdgesOpen
    \/ UploaderEdgesBatch
    \/ UploaderEdgesCommit
    \/ UploaderEdgesReturn

SpecVariants == InitVariants /\ [][NextVariants]_vars

\* load_vertices and load_edges of meta_uploader.py have ended, called with
\* the files, mapping, dependency order and project of the load of
\* meta_graph_load.py, on the empty tables that load began with
ComparedEnded ==
    /\ variant # <<>>
    /\ variant.pc \in {"done", "failed"}
    /\ variant.via = "load_vertices"
    /\ variant.at_start = [node_tables |-> at_start.node_tables,
                           edge_tables |-> at_start.edge_tables]

\* C29: over the same files, mapping, dependency order and project, on empty
\* tables, the loaders of meta_uploader.py fail exactly when those of
\* meta_graph_load.py fail, and leave the same rows, keys and props, in
\* every vertex table and every edge table.
C29_VariantsAgree ==
    ComparedEnded =>
        /\ variant.pc = "failed" <=> pc = "failed"
        /\ \A t \in DOMAIN node_tables :
              SansCreated(variant.node_tables[t]) = SansCreated(node_tables[t])
        /\ \A t \in DOMAIN edge_tables :
              SansCreated(variant.edge_tables[t]) = SansCreated(edge_tables[t])

(***************************************************************************)
(* upload_document_reference of src/aced_submission/uploader.py, lines     *)
(* 261-402: the document references not already uploaded are submitted to  *)
(* the worker pool, the results are polled, the state record is appended   *)
(* and the process exits. The variable upload holds the locals of the      *)
(* function under their names, the tasks of the pool and the state file.   *)
(***************************************************************************)
\* the longest list of document references read
MaxDocuments == 2

sd1 == <<"d", "1">>
sd2 == <<"d", "2">>
DocumentIds == {sd1, sd2}

\* document_reference_reader(document_reference_path): the ids in file order
DocumentReferenceLists ==
    UNION {[1..n -> DocumentIds] : n \in 0..MaxDocuments}

\* state.ndjson before the command: absent or empty, or one record of an
\* earlier command that completed d1
StateFiles ==
    { <<>>,
      << [completed |-> {sd1}, incomplete |-> {}, exceptions |-> <<>>] >> }

\* how a task of the pool ends: _upload_document_reference returns a result
\* without exception, returns a result with exception, or raises
Outcomes == {"returned", "returned_exception", "raised"}

\* lines 289-294: the ids completed by the records of the state file
AlreadyUploaded(ignore_state, state_file) ==
    IF ignore_state THEN {}
    ELSE UNION {state_file[i].completed : i \in DOMAIN state_file}

\* lines 296-297 and 308-310: the references that are not skipped
NotSkipped(document_references, already_uploaded) ==
    SelectSeq(document_references, LAMBDA d : d \notin already_uploaded)

\* exceptions[key] = value
SetException(exceptions, key, value) ==
    [x \in DOMAIN exceptions \cup {key} |->
        IF x = key THEN value ELSE exceptions[x]]

\* record.ready()
ready(task) == task.state # "running"

\* record.successful()
successful(task) == task.state \in {"returned", "returned_exception"}

\* everything but upload
UploadUnchanged ==
    UNCHANGED <<inv, previous_run, ensure, removal, staged, variant, faults, conn, node_program, node_project,
                edge_projectmemberofprogram, node_tables, edge_tables,
                LOGGED_ALREADY, pc, error, dependency_order, project_node_id,
                project_id, files, mappings, entity_index, data_table_name,
                batches, buffers, log, clock, runs, ensure_calls, ensure_count,
                last_ensure, resolved, db_work, at_start, run_results>>

\* the command is called: lines 261-287
InitUpload ==
    /\ LoaderIdle
    /\ staged = <<>>
    /\ variant = <<>>
    /\ \E refs \in DocumentReferenceLists, sf \in StateFiles,
          ignore \in BOOLEAN :
          upload = [pc |-> "start",
                    document_references |-> refs,
                    ignore_state |-> ignore,
                    state_file |-> sf,
                    already_uploaded |-> {},
                    incomplete |-> {},
                    completed |-> {},
                    exceptions |-> <<>>,
                    document_references_length |-> 0,
                    tasks |-> <<>>,
                    results |-> <<>>,
                    results_to_remove |-> {},
                    record |-> 1,
                    exit_status |-> None]

\* lines 289-327: the state file is read, the references not already
\* uploaded are counted and one task per such reference is submitted
SubmitTasks ==
    /\ upload.pc = "start"
    /\ LET already == AlreadyUploaded(upload.ignore_state, upload.state_file)
           todo == NotSkipped(upload.document_references, already)
       IN upload' = [upload EXCEPT
              !.pc = "poll",
              !.already_uploaded = already,
              !.incomplete = Range(todo),
              !.document_references_length = Len(todo),
              !.tasks = [t \in 1..Len(todo) |->
                            [id |-> todo[t], state |-> "running"]],
              !.results = [t \in 1..Len(todo) |-> t],
              !.results_to_remove = {},
              !.record = 1]
    /\ UploadUnchanged

\* a worker of the pool ends a task and the result thread of the pool
\* records it, while the command polls or waits (lines 353 and 376)
TaskFinishes ==
    /\ upload.pc \in {"poll", "poll_again", "sleep"}
    /\ \E t \in DOMAIN upload.tasks, o \in Outcomes :
          /\ upload.tasks[t].state = "running"
          /\ upload' = [upload EXCEPT !.tasks[t].state = o]
    /\ UploadUnchanged

\* lines 334-353: the first test of one record of the for loop; a record
\* that is ready and successful is counted and the command waits a tenth of
\* a second (line 353) before the second test of the same record
PollRecord ==
    /\ upload.pc = "poll"
    /\ upload.record <= Len(upload.results)
    /\ LET r == upload.results[upload.record]
           task == upload.tasks[r]
           next == [upload EXCEPT !.pc = "poll_again"]
       IN upload' =
            IF ready(task) /\ successful(task)
            THEN [next EXCEPT
                    !.exceptions =
                        IF task.state = "returned_exception"
                        THEN SetException(@, task.id, "returned")
                        ELSE @,
                    !.completed =
                        IF task.state = "returned" /\ task.id \notin @
                        THEN @ \cup {task.id} ELSE @,
                    !.incomplete =
                        IF task.state = "returned"
                           /\ task.id \notin upload.completed
                        THEN @ \ {task.id} ELSE @,
                    !.results_to_remove = @ \cup {r},
                    !.document_references_length = @ - 1]
            ELSE next
    /\ UploadUnchanged

\* lines 355-370: the second test of the same record, which reads the task
\* again; a record that is ready and not successful has its exception
\* captured once, and the for loop goes to the next record
PollRecordAgain ==
    /\ upload.pc = "poll_again"
    /\ LET r == upload.results[upload.record]
           task == upload.tasks[r]
           next == [upload EXCEPT !.pc = "poll", !.record = @ + 1]
       IN upload' =
            IF ready(task) /\ ~successful(task)
                 /\ task.id \notin DOMAIN upload.exceptions
            THEN [next EXCEPT
                    !.exceptions = SetException(@, task.id, "raised"),
                    !.document_references_length = @ - 1]
            ELSE next
    /\ UploadUnchanged

\* lines 372-376: after the for loop, break when the count is 0, else the
\* command sleeps one second
EndOfPass ==
    /\ upload.pc = "poll"
    /\ upload.record > Len(upload.results)
    /\ upload' =
         IF upload.document_references_length = 0
         THEN [upload EXCEPT !.pc = "write"]
         ELSE [upload EXCEPT !.pc = "sleep"]
    /\ UploadUnchanged

\* lines 379 and 331-333: after the sleep the processed results are culled
\* and the next pass starts with an empty results_to_remove
CullResults ==
    /\ upload.pc = "sleep"
    /\ upload' = [upload EXCEPT
           !.pc = "poll",
           !.results = SelectSeq(@, LAMBDA r :
                           r \notin upload.results_to_remove),
           !.results_to_remove = {},
           !.record = 1]
    /\ UploadUnchanged

\* lines 381-390: the state record is appended to the state file
WriteState ==
    /\ upload.pc = "write"
    /\ upload' = [upload EXCEPT
           !.pc = "exit",
           !.state_file = Append(@, [completed |-> upload.completed,
                                     incomplete |-> upload.incomplete,
                                     exceptions |-> upload.exceptions])]
    /\ UploadUnchanged

\* lines 394-402: exit(0) when incomplete is empty, else exit(1)
Exit ==
    /\ upload.pc = "exit"
    /\ upload' = [upload EXCEPT
           !.pc = "exited",
           !.exit_status = IF upload.incomplete = {} THEN 0 ELSE 1]
    /\ UploadUnchanged

\* the steps of the process that runs the command
UploadMain ==
    \/ SubmitTasks
    \/ PollRecord
    \/ PollRecordAgain
    \/ EndOfPass
    \/ CullResults
    \/ WriteState
    \/ Exit

NextUpload ==
    \/ SubmitTasks
    \/ TaskFinishes
    \/ PollRecord
    \/ PollRecordAgain
    \/ EndOfPass
    \/ CullResults
    \/ WriteState
    \/ Exit

\* the process that runs the command keeps running: its loop sleeps one
\* second and polls again, whatever the workers do
SpecUpload == InitUpload /\ [][NextUpload]_vars /\ WF_vars(UploadMain)

\* every task submitted to the pool has finished
AllTasksFinished ==
    /\ upload.pc # "start"
    /\ \A t \in DOMAIN upload.tasks : ready(upload.tasks[t])

\* every document reference not already uploaded completed without exception
AllCompletedWithoutException ==
    \A t \in DOMAIN upload.tasks : upload.tasks[t].state = "returned"

\* the last record of the state file is the state record of this command
StateRecordAppended ==
    /\ upload.state_file # <<>>
    /\ upload.state_file[Len(upload.state_file)]
          = [completed |-> upload.completed,
             incomplete |-> upload.incomplete,
             exceptions |-> upload.exceptions]

\* C30: once every task submitted to the pool has finished, the polling loop
\* of upload_document_reference ends, the state record is appended and the
\* process exits, with status 0 exactly when every document reference that
\* was not already uploaded completed without exception.
C30_PollingTerminates ==
    [](AllTasksFinished =>
          <>(/\ upload.pc = "exited"
             /\ StateRecordAppended
             /\ upload.exit_status = (IF AllCompletedWithoutException
                                      THEN 0 ELSE 1)))
====
